---- MODULE Spec2Model ----
(***************************************************************************)
(* Federation layer of the gateway: the per-backend circuit breaker, the   *)
(* tool cache, the registry replace-by-source, call forwarding with retry  *)
(* (federation.rs, registry.rs) and the downstream connection task with    *)
(* its pending-request map (client.rs).                                     *)
(*                                                                         *)
(* Time is in milliseconds.  Instants are integers; Option<Instant>::None  *)
(* is NoInstant.  DashMap / HashMap values are functions whose DOMAIN is   *)
(* the set of keys present.                                                 *)
(***************************************************************************)
EXTENDS Integers, Sequences, FiniteSets, TLC

\* ------------------------------------------------------------------ bounds
\* Number of clock advances explored in one behaviour.
MaxTicks == 2
\* Number of route_tool_call invocations started in one behaviour.
MaxOps == 3

\* The clock advances by one of these amounts (ms): the smallest backoff, and
\* a step that reaches the reset window and the cache TTL.
TickSteps == {10, 1000}

NoInstant == 0 - 1

Servers == {"s1", "s2"}
\* Concurrent route_tool_call callers.
Calls == 1..2

Min(a, b) == IF a < b THEN a ELSE b
Max(a, b) == IF a < b THEN b ELSE a

\* --------------------------------------------------------------- settings
\* FederationSettings values explored (config.rs): threshold 0 is clamped
\* to 1 by the code, max_retries 0 is clamped to 1.
ThresholdChoices == {0, 2}
MaxRetriesChoices == {0}
SettingsChoices ==
    [ circuit_breaker_threshold : ThresholdChoices,
      circuit_breaker_reset_seconds : {1},
      backoff_initial_ms : {10},
      backoff_max_ms : {20},
      max_retries : MaxRetriesChoices,
      tool_cache_ttl_seconds : {1} ]

VARIABLES
    now,              \* Instant::now()
    ticks,            \* clock advances so far
    ops,              \* operations started so far
    settings,         \* FederationSettings
    failure_tracker,  \* DashMap<String, CircuitState>
    metrics,          \* FederationMetrics
    connected,        \* per client: health.state is Connected
    tools,            \* ToolRegistry.tools: DashMap<String, Arc<ToolSpec>>
    calls,            \* route_tool_call invocations in progress
    streak,           \* per backend: failures registered in a row, and the last one's result
    tool_cache,       \* DashMap<String, ToolCacheEntry>
    syncs,            \* sync_server_tools invocations in progress
    lastSync,         \* per backend: the last sync that fetched and succeeded
    task,             \* where McpClient::connection_task is
    health,           \* ConnectionHealth
    sender,           \* McpClient.sender: "some", "disconnecting" or "none"
    cmd_queue,        \* the mpsc channel of ClientCommand
    pending_requests, \* connection_task's HashMap<String, PendingRequest>
    reqs,             \* send_request invocations and their oneshot channels
    wire,             \* request ids written to the socket
    answers,          \* per request id: responses the backend has sent
    frames,           \* other inbound frames so far
    sweep_at,         \* when the select loop's sleep(1s) completes
    sync_all,         \* the sync_all_servers invocation in progress
    backoff,          \* one compute_backoff_duration evaluation: input, output
    regcall,         \* ToolRegistry calls: the removal in progress, the last registrations
    conn,            \* McpClient::connect calls, and the tasks they spawned
    mgr,             \* McpFederationManager: client map, sync_handle, connect_all and shutdown
    locks,            \* who holds the tool_cache shards and the metrics lock, and where each worker is
    validate,         \* validate_tool_arguments calls, and RegistryMetrics.schema_validation_errors
    heartbeat_at,     \* when the heartbeat task's interval ticks next
    listeners         \* the registry's change listeners and the notification tasks

vars == <<now, ticks, ops, settings, failure_tracker, metrics, connected, tools,
          calls, streak, tool_cache, syncs, lastSync,
          task, health, sender, cmd_queue, pending_requests, reqs, wire, answers,
          frames, sweep_at, sync_all, backoff, regcall, conn, mgr, locks, validate, heartbeat_at, listeners>>

\* one client's connection
clientVars == <<task, health, sender, cmd_queue, pending_requests, reqs, wire,
                answers, frames, sweep_at>>

\* the federation manager
fedVars == <<ops, settings, failure_tracker, metrics, connected, tools, calls,
             streak, tool_cache, syncs, lastSync, sync_all, backoff, regcall, conn, mgr, locks, validate, heartbeat_at, listeners>>

\* what the forwarding steps leave alone, and what the sync steps leave alone
syncVars == <<tool_cache, syncs, lastSync, sync_all, backoff, regcall, conn, mgr, locks, validate, heartbeat_at, listeners>>
callVars == <<calls, backoff, regcall, conn, mgr, locks, validate, heartbeat_at, listeners>>

\* ------------------------------------------------------------ CircuitState
\* CircuitState::new
NewCircuit(reset_seconds) ==
    [ failure_count |-> 0,
      last_failure |-> NoInstant,
      open_until |-> NoInstant,
      reset_after |-> Max(reset_seconds, 1) * 1000 ]

\* `now < until` of is_open and is_open_now
WindowRunningLe(until, t) == t <= until
WindowRunning(until, t) == t < until

\* The stale-failure test `now.duration_since(last) >= self.reset_after`
\* (duration_since saturates at zero).
Stale(st, t) ==
    st.last_failure # NoInstant /\ Max(t - st.last_failure, 0) >= st.reset_after

\* is_open, the state it leaves
IsOpenStateClears(st, t) == [st EXCEPT !.open_until = NoInstant, !.failure_count = 0]
IsOpenState(st, t) ==
    IF st.open_until # NoInstant /\ WindowRunning(st.open_until, t)
    THEN st
    ELSE LET a == IF st.open_until # NoInstant
                  THEN [st EXCEPT !.open_until = NoInstant, !.failure_count = 0]
                  ELSE st
         IN IF Stale(a, t)
            THEN [a EXCEPT !.failure_count = 0, !.last_failure = NoInstant]
            ELSE a

\* is_open, the value it returns
IsOpenRet(st, t) == st.open_until # NoInstant /\ WindowRunning(st.open_until, t)

\* is_open_now
IsOpenNow(st, t) == st.open_until # NoInstant /\ WindowRunning(st.open_until, t)

RECURSIVE Pow2(_)
Pow2(n) == IF n = 0 THEN 1 ELSE 2 * Pow2(n - 1)

\* The u64 of the millisecond arithmetic and the u32 of the attempt, scaled
\* to these widths.
WordBits == 20
AttemptBits == 5
WordMax == Pow2(WordBits) - 1
AttemptMax == Pow2(AttemptBits) - 1

\* u64::saturating_mul, u64::saturating_add, 1u64.checked_shl(..).unwrap_or(MAX)
SatMul(a, b) == IF b > 0 /\ a > WordMax \div b THEN WordMax ELSE a * b
SatAdd(a, b) == Min(a + b, WordMax)
ShlOrMax(power) == IF power < WordBits THEN Pow2(power) ELSE WordMax

\* compute_backoff_duration before jitter
BackoffBase(s) == Max(s.backoff_initial_ms, 10)
BackoffCap(s) == Max(s.backoff_max_ms, BackoffBase(s))
BackoffMsUncapped(s, attempt) ==
    SatMul(BackoffBase(s), ShlOrMax(Min(attempt, 16)))
BackoffMs(s, attempt) ==
    Min(SatMul(BackoffBase(s), ShlOrMax(Min(attempt, 16))), BackoffCap(s))
JitterMax(s) == Min(BackoffBase(s), BackoffCap(s))
\* The draws of gen_range(0..=jitter_max) explored: both ends of the range.
JittersWide(s) == {0, JitterMax(s) + JitterMax(s)}
Jitters(s) == {0, JitterMax(s)}
\* compute_backoff_duration with the jitter drawn
ComputeBackoff(s, attempt, jitter) == Max(SatAdd(BackoffMs(s, attempt), jitter), 1)

\* One evaluation: attempt is the argument, pre the duration before jitter
\* and total the duration returned; prev is pre of the evaluation with
\* attempt - 1 when that came before.
IdleBackoff(attempt) ==
    [pc |-> "idle", attempt |-> attempt, prev |-> NoInstant, pre |-> NoInstant,
     total |-> NoInstant, evals |-> 0]

Threshold(s) == Max(s.circuit_breaker_threshold, 1)

\* register_failure: the count after the decay check and the increment
FailureCountAfter(st, t) == (IF Stale(st, t) THEN 0 ELSE st.failure_count) + 1

\* register_failure: whether this failure opens the circuit
Opens(s, count) == count >= Threshold(s)

\* register_failure: the duration returned (NoInstant for None)
RegisterFailureRet(st, t, s, jitter) ==
    LET count == FailureCountAfter(st, t)
    IN IF Opens(s, count)
       THEN ComputeBackoff(s, count - Threshold(s), jitter)
       ELSE NoInstant

\* register_failure: the state it leaves
RegisterFailureState(st, t, s, jitter) ==
    LET count == FailureCountAfter(st, t)
        d == RegisterFailureRet(st, t, s, jitter)
    IN [st EXCEPT !.failure_count = count,
                  !.last_failure = t,
                  !.open_until = IF d # NoInstant THEN t + d ELSE @]

\* register_success
RegisterSuccessStateKeeps(st) ==
    [st EXCEPT !.failure_count = 0, !.open_until = NoInstant]
RegisterSuccessState(st) ==
    [st EXCEPT !.failure_count = 0, !.open_until = NoInstant, !.last_failure = NoInstant]

\* ------------------------------------------------------------- registry
Local == [kind |-> "Local", server_id |-> ""]
Federated(sid) == [kind |-> "Federated", server_id |-> sid]

\* Names a caller may ask for.
CallNames == {"a", "b"}

\* A tools/list result: the array's entries by name; "?" is an entry with no
\* "name" field.
PayloadChoices == {<<"a">>, <<"b">>, <<"a", "?">>}

\* The registry after seed_with_local_tools.
SeededRegistry == [n \in {"lt"} |-> [source |-> Local]]

\* The registry after the first sync, s1 having listed <<"a">> and s2 <<"b">>.
SyncedRegistry ==
    [n \in {"lt", "a", "b"} |->
        [source |-> CASE n = "lt" -> Local
                      [] n = "a" -> Federated("s1")
                      [] OTHER -> Federated("s2")]]

\* ---------------------------------------------------------------- calls
IdleCall ==
    [pc |-> "idle", server |-> "", tool |-> "", attempt |-> 0,
     wake |-> NoInstant, rpcs |-> 0, ret |-> ""]

InitMetrics ==
    [tool_calls_forwarded |-> 0, federation_errors |-> 0,
     circuit_open_skips |-> 0, open_circuits |-> 0,
     server_failures |-> [s \in {} |-> 0],
     last_sync |-> NoInstant, sync_duration_ms |-> 0]

\* the DashMap with key k set to v
Put(m, k, v) == [x \in DOMAIN m \cup {k} |-> IF x = k THEN v ELSE m[x]]

\* `failure_tracker.iter().filter(is_open_now).count()`
OpenCircuits(ft, t) == Cardinality({s \in DOMAIN ft : IsOpenNow(ft[s], t)})

\* record_failure_shared: the tracker it leaves
RecordFailureTrackerAll(ft, s, t, jitter) ==
    [x \in DOMAIN ft \cup Servers |->
        RegisterFailureState(IF x \in DOMAIN ft THEN ft[x]
                             ELSE NewCircuit(settings.circuit_breaker_reset_seconds),
                             t, settings, jitter)]
RecordFailureTracker(ft, s, t, jitter) ==
    LET st == IF s \in DOMAIN ft THEN ft[s]
              ELSE NewCircuit(settings.circuit_breaker_reset_seconds)
    IN Put(ft, s, RegisterFailureState(st, t, settings, jitter))

\* record_failure_shared: the duration it returns
RecordFailureRetNone(ft, s, t, jitter) == NoInstant
RecordFailureRet(ft, s, t, jitter) ==
    LET st == IF s \in DOMAIN ft THEN ft[s]
              ELSE NewCircuit(settings.circuit_breaker_reset_seconds)
    IN RegisterFailureRet(st, t, settings, jitter)

\* record_failure_shared: the metrics it leaves
RecordFailureMetrics(m, ft2, s, t) ==
    [m EXCEPT !.federation_errors = @ + 1,
              !.server_failures =
                  Put(@, s, (IF s \in DOMAIN @ THEN @[s] ELSE 0) + 1),
              !.open_circuits = OpenCircuits(ft2, t)]

\* record_success_shared: the tracker it leaves
RecordSuccessTracker(ft, s) ==
    IF s \in DOMAIN ft THEN [ft EXCEPT ![s] = RegisterSuccessState(@)] ELSE ft

\* `max(1, max_retries)` of forward_to_downstream
MaxAttempts == Max(1, settings.max_retries)

\* ------------------------------------------------- history of the failures
\* Counted from the calls alone, not from CircuitState: n is the number of
\* register_failure calls on the backend since its last register_success,
\* each less than the reset window after the one before; at is the time of
\* the last one and ret the duration it returned (NoInstant for None).
NoStreak == [n |-> 0, at |-> NoInstant, ret |-> NoInstant]

StreakAfterFailure(h, t, ret) ==
    [n |-> IF h.at # NoInstant /\ t - h.at < Max(settings.circuit_breaker_reset_seconds, 1) * 1000
           THEN h.n + 1 ELSE 1,
     at |-> t, ret |-> ret]

\* ------------------------------------------------------- route_tool_call
Finish(c, ret) == [calls EXCEPT ![c].pc = "done", ![c].ret = ret]

\* route_tool_call in Execute mode, a Federated tool whose backend has a
\* client: forward_to_downstream up to its pre-flight circuit check
RouteForward(c, name) ==
    /\ calls[c].pc = "idle" /\ ops < MaxOps
    /\ \A c2 \in Calls : c2 < c => calls[c2].pc # "idle"
    /\ name \in DOMAIN tools /\ tools[name].source.kind = "Federated"
    /\ tools[name].source.server_id \in DOMAIN connected
    /\ ops' = ops + 1
    /\ LET sid == tools[name].source.server_id
           tracked == sid \in DOMAIN failure_tracker
           blocked == tracked /\ IsOpenRet(failure_tracker[sid], now)
       IN /\ failure_tracker' =
                 IF tracked
                 THEN [failure_tracker EXCEPT ![sid] = IsOpenState(@, now)]
                 ELSE failure_tracker
          /\ calls' = [calls EXCEPT ![c] =
                 [IdleCall EXCEPT !.pc = IF blocked THEN "blocked" ELSE "attempt",
                                  !.server = sid, !.tool = name]]
    /\ UNCHANGED <<now, ticks, settings, metrics, connected, tools, streak, syncVars, clientVars>>

\* circuit_open_skips left as it was
SkipsAfterLost(n) == n

\* forward_to_downstream: the circuit was open
SkipsAfter(n) == n + 1
ForwardBlocked(c) ==
    /\ calls[c].pc = "blocked"
    /\ metrics' = [metrics EXCEPT !.circuit_open_skips = SkipsAfter(@)]
    /\ calls' = Finish(c, "circuit_open")
    /\ UNCHANGED <<now, ticks, ops, settings, failure_tracker, connected, tools, streak, syncVars, clientVars>>

\* forward_to_downstream: an attempt finds the client not connected, were
\* the failure not registered
ForwardNotConnectedSilent(c) ==
    /\ calls[c].pc = "attempt"
    /\ ~connected[calls[c].server]
    /\ calls' = Finish(c, "not_connected")
    /\ UNCHANGED <<now, ticks, ops, settings, failure_tracker, metrics, streak,
                   connected, tools, syncVars, clientVars>>

\* The backend's connection task ends (Close frame, socket error): the
\* client's health.state becomes Disconnected.
ConnectionLost(sid) ==
    /\ connected[sid]
    /\ connected' = [connected EXCEPT ![sid] = FALSE]
    /\ UNCHANGED <<now, ticks, ops, settings, failure_tracker, metrics, tools, calls,
                   streak, syncVars, clientVars>>

\* forward_to_downstream: an attempt finds the client not connected
ForwardNotConnected(c) ==
    /\ calls[c].pc = "attempt"
    /\ ~connected[calls[c].server]
    /\ \E j \in Jitters(settings) :
         LET sid == calls[c].server
             ft2 == RecordFailureTracker(failure_tracker, sid, now, j)
         IN /\ failure_tracker' = ft2
            /\ metrics' = RecordFailureMetrics(metrics, ft2, sid, now)
            /\ streak' = [streak EXCEPT ![sid] =
                   StreakAfterFailure(@, now, RecordFailureRet(failure_tracker, sid, now, j))]
    /\ calls' = Finish(c, "not_connected")
    /\ UNCHANGED <<now, ticks, ops, settings, connected, tools, syncVars, clientVars>>

\* forward_to_downstream: an attempt sends tools/call
ForwardSend(c) ==
    /\ calls[c].pc = "attempt"
    /\ connected[calls[c].server]
    /\ calls' = [calls EXCEPT ![c].pc = "calling", ![c].rpcs = @ + 1]
    /\ UNCHANGED <<now, ticks, ops, settings, failure_tracker, metrics, connected, tools, streak, syncVars, clientVars>>

\* forward_to_downstream: the response carries no error
ForwardSuccess(c) ==
    /\ calls[c].pc = "calling"
    /\ LET sid == calls[c].server
           ft2 == RecordSuccessTracker(failure_tracker, sid)
       IN /\ failure_tracker' = ft2
          /\ metrics' = [metrics EXCEPT !.open_circuits = OpenCircuits(ft2, now),
                                        !.tool_calls_forwarded = @ + 1]
          /\ streak' = [streak EXCEPT ![sid] = NoStreak]
    /\ calls' = Finish(c, "ok")
    /\ UNCHANGED <<now, ticks, ops, settings, connected, tools, syncVars, clientVars>>

\* forward_to_downstream: the response carries an error, or call_tool failed
ForwardFailure(c) ==
    /\ calls[c].pc = "calling"
    /\ \E j \in Jitters(settings) :
         LET sid == calls[c].server
             ft2 == RecordFailureTracker(failure_tracker, sid, now, j)
             d == RecordFailureRet(failure_tracker, sid, now, j)
             attempt == calls[c].attempt + 1
         IN /\ failure_tracker' = ft2
            /\ metrics' = RecordFailureMetrics(metrics, ft2, sid, now)
            /\ streak' = [streak EXCEPT ![sid] = StreakAfterFailure(@, now, d)]
            /\ calls' =
                 IF d # NoInstant THEN Finish(c, "circuit_opened")
                 ELSE IF attempt > MaxAttempts
                      THEN [calls EXCEPT ![c].pc = "done", ![c].ret = "failed",
                                         ![c].attempt = attempt]
                      ELSE [calls EXCEPT ![c].pc = "sleeping", ![c].attempt = attempt,
                                         ![c].wake = now + ComputeBackoff(settings, attempt, j)]
    /\ UNCHANGED <<now, ticks, ops, settings, connected, tools, syncVars, clientVars>>

\* forward_to_downstream: the backoff sleep is over
ForwardWake(c) ==
    /\ calls[c].pc = "sleeping"
    /\ now >= calls[c].wake
    /\ calls' = [calls EXCEPT ![c].pc = "attempt", ![c].wake = NoInstant]
    /\ UNCHANGED <<now, ticks, ops, settings, failure_tracker, metrics, connected, tools, streak, syncVars, clientVars>>

\* the caller takes the result
Return(c) ==
    /\ calls[c].pc = "done"
    /\ calls' = [calls EXCEPT ![c] = IdleCall]
    /\ UNCHANGED <<now, ticks, ops, settings, failure_tracker, metrics, connected, tools, streak, syncVars, clientVars>>

\* The names route_tool_call is asked to plan: federated tools, the local
\* tool, and a name the registry does not have.
PlanNames == CallNames \cup {"lt", "zz"}

\* generate_execution_plan: target_server
TargetServer(source) ==
    IF source.kind = "Federated" THEN source.server_id ELSE "local"

\* a Plan call that is counted as a forwarded call
RoutePlanCounted(c, name) ==
    /\ calls[c].pc = "idle" /\ ops < MaxOps
    /\ ops' = ops + 1
    /\ calls' = [calls EXCEPT ![c] =
           [IdleCall EXCEPT !.pc = "done", !.ret = "plan", !.tool = name]]
    /\ metrics' = [metrics EXCEPT !.tool_calls_forwarded = @ + 1]
    /\ UNCHANGED <<now, ticks, settings, failure_tracker, connected, tools,
                   streak, syncVars, clientVars>>

\* route_tool_call with ExecutionMode::Plan
RoutePlan(c, name) ==
    /\ calls[c].pc = "idle" /\ ops < MaxOps
    /\ ops' = ops + 1
    /\ calls' = [calls EXCEPT ![c] =
           IF name \in DOMAIN tools
           THEN [IdleCall EXCEPT !.pc = "done", !.ret = "plan", !.tool = name,
                                 !.server = TargetServer(tools[name].source)]
           ELSE [IdleCall EXCEPT !.pc = "done", !.ret = "not_found", !.tool = name]]
    /\ UNCHANGED <<now, ticks, settings, failure_tracker, metrics, connected,
                   tools, streak, syncVars, clientVars>>

\* ------------------------------------- route_tool_call, the other ways out
\* route_tool_call: the registry has no tool of that name
RouteNotFound(c, name) ==
    /\ calls[c].pc = "idle" /\ ops < MaxOps
    /\ name \notin DOMAIN tools
    /\ ops' = ops + 1
    /\ calls' = [calls EXCEPT ![c] =
           [IdleCall EXCEPT !.pc = "done", !.tool = name, !.ret = "tool_not_found"]]
    /\ UNCHANGED <<now, ticks, settings, failure_tracker, metrics, connected, tools,
                   streak, syncVars, clientVars>>

\* execute_tool_call of a Local tool, were it handed to a downstream client
RouteLocalSends(c, name) ==
    /\ calls[c].pc = "idle" /\ ops < MaxOps
    /\ name \in DOMAIN tools /\ tools[name].source.kind = "Local"
    /\ ops' = ops + 1
    /\ calls' = [calls EXCEPT ![c] =
           [IdleCall EXCEPT !.pc = "calling", !.tool = name, !.rpcs = 1,
                            !.server = CHOOSE s \in DOMAIN connected : TRUE]]
    /\ UNCHANGED <<now, ticks, settings, failure_tracker, metrics, connected, tools,
                   streak, syncVars, clientVars>>

\* execute_tool_call of a Local tool: the result is made in place
RouteLocal(c, name) ==
    /\ calls[c].pc = "idle" /\ ops < MaxOps
    /\ name \in DOMAIN tools /\ tools[name].source.kind = "Local"
    /\ ops' = ops + 1
    /\ calls' = [calls EXCEPT ![c] =
           [IdleCall EXCEPT !.pc = "done", !.tool = name, !.ret = "local"]]
    /\ UNCHANGED <<now, ticks, settings, failure_tracker, metrics, connected, tools,
                   streak, syncVars, clientVars>>

\* forward_to_downstream: `self.clients.get(server_id)` is None
RouteNoClient(c, name) ==
    /\ calls[c].pc = "idle" /\ ops < MaxOps
    /\ name \in DOMAIN tools /\ tools[name].source.kind = "Federated"
    /\ tools[name].source.server_id \notin DOMAIN connected
    /\ ops' = ops + 1
    /\ calls' = [calls EXCEPT ![c] =
           [IdleCall EXCEPT !.pc = "done", !.tool = name, !.ret = "server_not_found",
                            !.server = tools[name].source.server_id]]
    /\ UNCHANGED <<now, ticks, settings, failure_tracker, metrics, connected, tools,
                   streak, syncVars, clientVars>>

\* time passes
Tick(d) ==
    /\ ticks < MaxTicks
    /\ now' = now + d
    /\ ticks' = ticks + 1
    /\ UNCHANGED <<ops, settings, failure_tracker, metrics, connected, tools, calls, streak, syncVars, clientVars>>


\* ------------------------------------------------------------ tool cache
\* the SHA-256 of the serialized tools array: distinct arrays, distinct hashes
SpecHash(payload) == <<"sha256", payload>>

\* `settings.tool_cache_ttl_seconds > 0`
CachingAlways(s) == TRUE
Caching(s) == s.tool_cache_ttl_seconds > 0

\* `Duration::from_secs(settings.tool_cache_ttl_seconds.max(1))`
CacheTtl(s) == Max(s.tool_cache_ttl_seconds, 1) * 1000

\* `cache_entry.spec_hash == spec_hash && cache_entry.expires_at > now`
CacheFreshInverted(entry, hash, t) == entry.spec_hash = hash /\ entry.expires_at < t
CacheFresh(entry, hash, t) == entry.spec_hash = hash /\ entry.expires_at > t

\* The cache after the first sync (at time 0) that left SyncedRegistry.
SyncedCache(s) ==
    IF Caching(s)
    THEN [x \in Servers |->
            [spec_hash |-> SpecHash(IF x = "s1" THEN <<"a">> ELSE <<"b">>),
             expires_at |-> CacheTtl(s), tool_count |-> 1]]
    ELSE [x \in {} |-> 0]

\* -------------------------------------------------------------- registry
\* the filter of remove_tools_from_source and get_tools_from_source
FromSource(spec, sid) ==
    IF spec.source.kind = "Federated" THEN spec.source.server_id = sid
    ELSE sid = "local"

\* remove_tools_from_source: the registry it leaves
RemoveToolsFromSource(reg, sid) ==
    [n \in {m \in DOMAIN reg : ~FromSource(reg[m], sid)} |-> reg[n]]

\* remove_tools_from_source: SourceRemoved is notified when something was removed
RemoveEvents(reg, sid) ==
    IF \E m \in DOMAIN reg : FromSource(reg[m], sid) THEN 1 ELSE 0

\* ------------------------------------------------ ToolRegistry, in full
\* Option<serde_json::Value>::None of output_schema
NoSchema == "none"

\* String::new() of spec_hash
NoHash == <<>>

\* format!("{:x}", Sha256(bytes)): distinct byte strings, distinct digests
Sha256Hex(bytes) == <<"sha256">> \o bytes

\* compute_tool_hash: the input schema, the output schema when there is one,
\* the name and the description are fed to the hasher in this order
ComputeToolHash(tool) ==
    Sha256Hex(<<tool.input_schema>>
              \o (IF tool.output_schema = NoSchema THEN <<>> ELSE <<tool.output_schema>>)
              \o <<tool.name>> \o <<tool.description>>)

\* register_tool: the hash it stores
StoredHashSupplied(tool) ==
    IF tool.spec_hash = NoHash THEN ComputeToolHash(tool) ELSE tool.spec_hash
StoredHash(tool) == ComputeToolHash(tool)

\* register_tool_sync: the hash it stores
StoredHashSync(tool) ==
    IF tool.spec_hash = NoHash THEN ComputeToolHash(tool) ELSE tool.spec_hash

\* The ToolSpec values handed to the registry.
ToolSpecChoices ==
    [ name : {"a", "b"},
      description : {"d"},
      input_schema : {"i"},
      output_schema : {NoSchema, "o"},
      source : {Local} \cup {Federated(sid) : sid \in Servers},
      spec_hash : {NoHash, <<"h">>} ]

\* the registry entry made of a ToolSpec
Entry(tool, hash) == [source |-> tool.source, spec_hash |-> hash]

\* One registration as the properties see it: the four hashed fields, what
\* the caller supplied beside them, and the hash stored.
Registration(tool, via, hash) ==
    [fields |-> <<tool.name, tool.description, tool.input_schema, tool.output_schema>>,
     via |-> via, supplied |-> tool.spec_hash, source |-> tool.source, hash |-> hash]

NoRegistration ==
    [fields |-> <<>>, via |-> "", supplied |-> NoHash, source |-> Local, hash |-> NoHash]

\* names is tools_to_remove not yet removed; last and prev are the two most
\* recent registrations.
IdleRegCall ==
    [pc |-> "idle", source |-> "", names |-> {}, removed |-> {},
     last |-> NoRegistration, prev |-> NoRegistration]

\* register_tool
RegisterToolCall(tool) ==
    /\ ops < MaxOps
    /\ ops' = ops + 1
    /\ tools' = Put(tools, tool.name, Entry(tool, StoredHash(tool)))
    /\ regcall' = [regcall EXCEPT
           !.last = Registration(tool, "register_tool", StoredHash(tool)),
           !.prev = regcall.last]
    /\ UNCHANGED <<now, ticks, settings, failure_tracker, metrics, connected, calls,
                   streak, tool_cache, syncs, lastSync, sync_all, backoff, conn, mgr, locks, validate, heartbeat_at, listeners, clientVars>>

\* register_tool_sync
RegisterToolSyncCall(tool) ==
    /\ ops < MaxOps
    /\ ops' = ops + 1
    /\ tools' = Put(tools, tool.name, Entry(tool, StoredHashSync(tool)))
    /\ regcall' = [regcall EXCEPT
           !.last = Registration(tool, "register_tool_sync", StoredHashSync(tool)),
           !.prev = regcall.last]
    /\ UNCHANGED <<now, ticks, settings, failure_tracker, metrics, connected, calls,
                   streak, tool_cache, syncs, lastSync, sync_all, backoff, conn, mgr, locks, validate, heartbeat_at, listeners, clientVars>>

\* remove_tools_from_source: the names of the source's tools are collected
RemoveCollect(sid) ==
    /\ regcall.pc = "idle"
    /\ ops < MaxOps
    /\ ops' = ops + 1
    /\ regcall' = [regcall EXCEPT
           !.pc = "removing", !.source = sid, !.removed = {},
           !.names = {n \in DOMAIN tools : FromSource(tools[n], sid)}]
    /\ UNCHANGED <<now, ticks, settings, failure_tracker, metrics, connected, tools,
                   calls, streak, tool_cache, syncs, lastSync, sync_all, backoff, conn, mgr, locks, validate, heartbeat_at, listeners,
                   clientVars>>

\* remove_tools_from_source: `self.tools.remove(tool_name)` of the loop
RemoveOne(n) ==
    /\ regcall.pc = "removing"
    /\ n \in regcall.names
    /\ tools' = [m \in DOMAIN tools \ {n} |-> tools[m]]
    /\ regcall' = [regcall EXCEPT !.names = @ \ {n}, !.removed = @ \cup {n}]
    /\ UNCHANGED <<now, ticks, ops, settings, failure_tracker, metrics, connected,
                   calls, streak, tool_cache, syncs, lastSync, sync_all, backoff, conn, mgr, locks, validate, heartbeat_at, listeners,
                   clientVars>>

\* remove_tools_from_source returns tools_to_remove
RemoveReturn ==
    /\ regcall.pc = "removing"
    /\ regcall.names = {}
    /\ regcall' = [regcall EXCEPT !.pc = "idle"]
    /\ UNCHANGED <<now, ticks, ops, settings, failure_tracker, metrics, connected,
                   tools, calls, streak, tool_cache, syncs, lastSync, sync_all,
                   backoff, conn, mgr, locks, validate, heartbeat_at, listeners, clientVars>>

\* parse_tool_spec succeeds when the entry has a "name" string
Parses(entry) == entry # "?"

\* register_tool of the spec parse_tool_spec built: the registry it leaves
RegisterTool(reg, name, sid) == Put(reg, name, [source |-> Federated(sid)])

\* ---------------------------------------------------------------- syncs
\* Concurrent sync_server_tools invocations (sync_all_servers spawns one per
\* backend; the periodic task runs its own).
Syncs == 1..2

\* How many syncs one behaviour starts.
MaxSyncOps == 2

\* How many times one behaviour calls sync_all_servers.
MaxSyncAlls == 1

NoSync == [valid |-> FALSE, payload |-> <<>>, count |-> 0, at |-> NoInstant]

\* rpcs, removes, events, cache_reads and cache_writes count what this
\* invocation did; prev is lastSync of the backend when it started; alone says that no
\* other sync of the same backend ran while it did.
IdleSync ==
    [pc |-> "idle", server |-> "", t0 |-> NoInstant, payload |-> <<>>, idx |-> 0,
     registered_count |-> 0, rpcs |-> 0, removes |-> 0, events |-> 0,
     cache_reads |-> 0, cache_writes |-> 0,
     ret |-> "", count |-> 0, prev |-> NoSync, alone |-> TRUE]

SyncDone(y, ret, count) ==
    [syncs EXCEPT ![y].pc = "done", ![y].ret = ret, ![y].count = count]

\* sync_server_tools up to its circuit check
SyncBegin(y, sid) ==
    /\ syncs[y].pc = "idle"
    /\ \A y2 \in Syncs : y2 < y => syncs[y2].pc # "idle"
    /\ LET tracked == sid \in DOMAIN failure_tracker
           skip == tracked /\ IsOpenRet(failure_tracker[sid], now)
           others == {y2 \in Syncs : y2 # y /\ syncs[y2].pc \notin {"idle", "done"}
                                       /\ syncs[y2].server = sid}
       IN /\ failure_tracker' =
                 IF tracked
                 THEN [failure_tracker EXCEPT ![sid] = IsOpenState(@, now)]
                 ELSE failure_tracker
          /\ syncs' = [y2 \in Syncs |->
                 IF y2 = y
                 THEN [IdleSync EXCEPT !.pc = IF skip THEN "skipped" ELSE "checked",
                                       !.server = sid, !.t0 = now,
                                       !.prev = lastSync[sid],
                                       !.alone = (others = {})]
                 ELSE IF y2 \in others THEN [syncs[y2] EXCEPT !.alone = FALSE]
                 ELSE syncs[y2]]
    /\ UNCHANGED <<now, ticks, settings, metrics, connected, tools, streak,
                   tool_cache, lastSync, callVars, clientVars>>

\* sync_all_servers: spawned are the backends whose task has not started;
\* errors0 is federation_errors and skips0 circuit_open_skips at the call;
\* failed are the backends whose task returned Err.
IdleSyncAll ==
    [pc |-> "idle", spawned |-> {}, started |-> NoInstant, errors0 |-> 0,
     skips0 |-> 0, total_tools |-> 0, errors |-> 0, failed |-> {}, runs |-> 0]

\* Result<usize> of sync_server_tools: Ok for a sync that registered, hit the
\* cache, or skipped an open circuit
IsOk(ret) == ret \in {"ok", "skipped"}

\* sync_all_servers is called: one task per client is spawned
SyncAllStart ==
    /\ sync_all.pc = "idle"
    /\ sync_all.runs < MaxSyncAlls
    /\ \A y \in Syncs : syncs[y].pc = "idle"
    /\ sync_all' = [IdleSyncAll EXCEPT !.pc = "running", !.spawned = Servers,
                                       !.started = now,
                                       !.errors0 = metrics.federation_errors,
                                       !.skips0 = metrics.circuit_open_skips,
                                       !.runs = sync_all.runs + 1]
    /\ UNCHANGED <<now, ticks, ops, settings, failure_tracker, metrics, connected,
                   tools, streak, tool_cache, syncs, lastSync, callVars, clientVars>>

\* a spawned task starts running sync_server_tools
SyncAllTask(sid) ==
    /\ sync_all.pc = "running"
    /\ sid \in sync_all.spawned
    /\ \E y \in Syncs : SyncBegin(y, sid)
    /\ ops' = ops
    /\ sync_all' = [sync_all EXCEPT !.spawned = @ \ {sid}]

RECURSIVE SumCounts(_, _)
SumCounts(sy, ys) ==
    IF ys = {} THEN 0
    ELSE LET y == CHOOSE z \in ys : TRUE
         IN (IF IsOk(sy[y].ret) THEN sy[y].count ELSE 0) + SumCounts(sy, ys \ {y})

\* the errors sync_all_servers adds to federation_errors
ErrorsNone(failed) == 0
ErrorsJoined(failed) == Cardinality(failed)

\* sync_all_servers: join_all returns; the results are counted into the metrics
SyncAllJoin ==
    /\ sync_all.pc = "running"
    /\ sync_all.spawned = {}
    /\ \A y \in Syncs : syncs[y].pc \in {"idle", "done"}
    /\ LET failed == {syncs[y].server : y \in {z \in Syncs : syncs[z].pc = "done"
                                                       /\ ~IsOk(syncs[z].ret)}}
       IN /\ metrics' = [metrics EXCEPT
                 !.last_sync = now,
                 !.sync_duration_ms = now - sync_all.started,
                 !.federation_errors = @ + ErrorsJoined(failed)]
          /\ sync_all' = [sync_all EXCEPT
                 !.pc = "done", !.failed = failed,
                 !.errors = Cardinality(failed),
                 !.total_tools = SumCounts(syncs, {z \in Syncs : syncs[z].pc = "done"})]
    /\ syncs' = [y \in Syncs |-> IdleSync]
    /\ UNCHANGED <<now, ticks, ops, settings, failure_tracker, connected, tools,
                   streak, tool_cache, lastSync, callVars, clientVars>>

\* sync_all_servers returns Ok(())
SyncAllReturn ==
    /\ sync_all.pc = "done"
    /\ sync_all' = [IdleSyncAll EXCEPT !.runs = sync_all.runs]
    /\ UNCHANGED <<now, ticks, ops, settings, failure_tracker, metrics, connected,
                   tools, streak, tool_cache, syncs, lastSync, callVars, clientVars>>

\* a sync_server_tools invocation starts on its own
SyncStart(y, sid) ==
    /\ ops < MaxSyncOps
    /\ ops' = ops + 1
    /\ SyncBegin(y, sid)

\* sync_server_tools: the circuit was open
SyncSkipped(y) ==
    /\ syncs[y].pc = "skipped"
    /\ metrics' = [metrics EXCEPT !.circuit_open_skips = SkipsAfter(@)]
    /\ syncs' = SyncDone(y, "skipped", 0)
    /\ UNCHANGED <<now, ticks, ops, settings, failure_tracker, connected, tools,
                   streak, tool_cache, lastSync, callVars, clientVars>>

\* sync_server_tools: the client is not connected
SyncNotConnected(y) ==
    /\ syncs[y].pc = "checked"
    /\ ~connected[syncs[y].server]
    /\ \E j \in Jitters(settings) :
         LET sid == syncs[y].server
             ft2 == RecordFailureTracker(failure_tracker, sid, now, j)
         IN /\ failure_tracker' = ft2
            /\ metrics' = RecordFailureMetrics(metrics, ft2, sid, now)
            /\ streak' = [streak EXCEPT ![sid] =
                   StreakAfterFailure(@, now, RecordFailureRet(failure_tracker, sid, now, j))]
    /\ syncs' = SyncDone(y, "not_connected", 0)
    /\ UNCHANGED <<now, ticks, ops, settings, connected, tools,
                   tool_cache, lastSync, callVars, clientVars>>

\* sync_server_tools: initialize and tools/list are sent
SyncFetch(y) ==
    /\ syncs[y].pc = "checked"
    /\ connected[syncs[y].server]
    /\ syncs' = [syncs EXCEPT ![y].pc = "listing", ![y].rpcs = @ + 2]
    /\ UNCHANGED <<now, ticks, ops, settings, failure_tracker, metrics, connected,
                   tools, streak, tool_cache, lastSync, callVars, clientVars>>

\* sync_server_tools: list_tools returned Err (timeout, connection closed)
SyncListFailed(y) ==
    /\ syncs[y].pc = "listing"
    /\ syncs' = SyncDone(y, "transport_error", 0)
    /\ UNCHANGED <<now, ticks, ops, settings, failure_tracker, metrics, connected,
                   tools, streak, tool_cache, lastSync, callVars, clientVars>>

\* sync_server_tools: the response carries a JSON-RPC error
SyncListError(y) ==
    /\ syncs[y].pc = "listing"
    /\ \E j \in Jitters(settings) :
         LET sid == syncs[y].server
             ft2 == RecordFailureTracker(failure_tracker, sid, now, j)
         IN /\ failure_tracker' = ft2
            /\ metrics' = RecordFailureMetrics(metrics, ft2, sid, now)
            /\ streak' = [streak EXCEPT ![sid] =
                   StreakAfterFailure(@, now, RecordFailureRet(failure_tracker, sid, now, j))]
    /\ syncs' = SyncDone(y, "rpc_error", 0)
    /\ UNCHANGED <<now, ticks, ops, settings, connected, tools,
                   tool_cache, lastSync, callVars, clientVars>>

\* sync_server_tools: the response has no result, or no "tools" array
SyncListMalformed(y) ==
    /\ syncs[y].pc = "listing"
    /\ syncs' = SyncDone(y, "malformed", 0)
    /\ UNCHANGED <<now, ticks, ops, settings, failure_tracker, metrics, connected,
                   tools, streak, tool_cache, lastSync, callVars, clientVars>>

\* the cache lookup of sync_server_tools finds a live entry with this hash
CacheHit(sid, payload, t) ==
    /\ Caching(settings)
    /\ sid \in DOMAIN tool_cache
    /\ CacheFresh(tool_cache[sid], SpecHash(payload), t)

\* sync_server_tools: the tools array is fetched and the cache has it
SyncCacheHit(y, payload) ==
    /\ syncs[y].pc = "listing"
    /\ CacheHit(syncs[y].server, payload, syncs[y].t0)
    /\ LET sid == syncs[y].server
           ft2 == RecordSuccessTracker(failure_tracker, sid)
           n == tool_cache[sid].tool_count
       IN /\ tool_cache' = [tool_cache EXCEPT ![sid].expires_at =
                                syncs[y].t0 + CacheTtl(settings)]
          /\ failure_tracker' = ft2
          /\ metrics' = [metrics EXCEPT !.open_circuits = OpenCircuits(ft2, now)]
          /\ streak' = [streak EXCEPT ![sid] = NoStreak]
          /\ syncs' = [syncs EXCEPT ![y].pc = "done", ![y].ret = "ok", ![y].count = n,
                                    ![y].payload = payload,
                                    ![y].cache_reads = @ + 1, ![y].cache_writes = @ + 1]
          /\ lastSync' = [lastSync EXCEPT ![sid] =
                 [valid |-> TRUE, payload |-> payload, count |-> n, at |-> syncs[y].t0]]
    /\ UNCHANGED <<now, ticks, ops, settings, connected, tools, callVars, clientVars>>

\* sync_server_tools: the tools array is fetched and the cache does not have
\* it: remove_tools_from_source
SyncCacheMiss(y, payload) ==
    /\ syncs[y].pc = "listing"
    /\ ~CacheHit(syncs[y].server, payload, syncs[y].t0)
    /\ LET sid == syncs[y].server
       IN /\ tools' = RemoveToolsFromSource(tools, sid)
          /\ syncs' = [syncs EXCEPT ![y].pc = "registering", ![y].payload = payload,
                                    ![y].idx = 1, ![y].removes = @ + 1,
                                    ![y].events = @ + RemoveEvents(tools, sid),
                                    ![y].cache_reads =
                                        @ + (IF Caching(settings) THEN 1 ELSE 0)]
    /\ UNCHANGED <<now, ticks, ops, settings, failure_tracker, metrics, connected,
                   streak, tool_cache, lastSync, callVars, clientVars>>

\* sync_server_tools: the next entry of the array is parsed and registered
SyncRegister(y) ==
    /\ syncs[y].pc = "registering"
    /\ syncs[y].idx <= Len(syncs[y].payload)
    /\ LET entry == syncs[y].payload[syncs[y].idx]
       IN IF Parses(entry)
          THEN /\ tools' = RegisterTool(tools, entry, syncs[y].server)
               /\ syncs' = [syncs EXCEPT ![y].idx = @ + 1,
                                         ![y].registered_count = @ + 1,
                                         ![y].events = @ + 1]
          ELSE /\ tools' = tools
               /\ syncs' = [syncs EXCEPT ![y].idx = @ + 1]
    /\ UNCHANGED <<now, ticks, ops, settings, failure_tracker, metrics, connected,
                   streak, tool_cache, lastSync, callVars, clientVars>>

\* sync_server_tools: every entry is registered; the cache entry is written
SyncFinish(y) ==
    /\ syncs[y].pc = "registering"
    /\ syncs[y].idx > Len(syncs[y].payload)
    /\ LET sid == syncs[y].server
           ft2 == RecordSuccessTracker(failure_tracker, sid)
           n == syncs[y].registered_count
       IN /\ tool_cache' =
                 IF Caching(settings)
                 THEN Put(tool_cache, sid,
                          [spec_hash |-> SpecHash(syncs[y].payload),
                           expires_at |-> now + CacheTtl(settings),
                           tool_count |-> n])
                 ELSE tool_cache
          /\ failure_tracker' = ft2
          /\ metrics' = [metrics EXCEPT !.open_circuits = OpenCircuits(ft2, now)]
          /\ streak' = [streak EXCEPT ![sid] = NoStreak]
          /\ syncs' = [syncs EXCEPT ![y].pc = "done", ![y].ret = "ok", ![y].count = n,
                                    ![y].cache_writes =
                                        @ + (IF Caching(settings) THEN 1 ELSE 0)]
          /\ lastSync' = [lastSync EXCEPT ![sid] =
                 [valid |-> TRUE, payload |-> syncs[y].payload, count |-> n,
                  at |-> syncs[y].t0]]
    /\ UNCHANGED <<now, ticks, ops, settings, connected, tools, callVars, clientVars>>

\* the caller takes the result
SyncReturn(y) ==
    /\ syncs[y].pc = "done"
    /\ syncs' = [syncs EXCEPT ![y] = IdleSync]
    /\ UNCHANGED <<now, ticks, ops, settings, failure_tracker, metrics, connected,
                   tools, streak, tool_cache, lastSync, callVars, clientVars>>


\* ------------------------------------------------------- McpClient
\* send_request invocations on one client
Reqs == 1..2

\* `tokio::time::sleep(Duration::from_secs(1))` of the select loop, in ms
SweepInterval == 1000

\* `config.timeout_ms`
TimeoutMs == 500

\* Inbound frames beyond one response per request: responses sent a second
\* time, and frames that are no response.
MaxFrames == 1

\* The size of a clock advance while the select loop waits.
ClientTickSteps == {1000}

NoValue == [kind |-> "none", of |-> 0]

\* handle is the oneshot channel: "none" before it exists, "open", "sent"
\* once the Sender was used, "dropped" once it was dropped unused; stored
\* says that a PendingRequest was made of it; completions counts
\* `pending.sender.send`, outcomes the returns of send_request.
IdleReq ==
    [pc |-> "idle", handle |-> "none", value |-> NoValue, stored |-> FALSE,
     completions |-> 0, outcomes |-> 0, outcome |-> ""]

InitHealth == [state |-> "Connected", message_count |-> 0, error_count |-> 0,
               last_heartbeat |-> NoInstant,
               latency_ms |-> 0]

\* the state of the federation manager's client before connect
SendCommand(id) == [kind |-> "Send", id |-> id]
DisconnectCommand == [kind |-> "Disconnect", id |-> 0]

\* send_request returns
Returned(r, outcome) ==
    [reqs EXCEPT ![r].pc = "returned", ![r].outcome = outcome,
                 ![r].outcomes = @ + 1]

\* `sender.send(command)` on the unbounded mpsc channel: commands are
\* received in the order they were sent
EnqueueFront(q, cmd) == <<cmd>> \o q
Enqueue(q, cmd) == Append(q, cmd)

\* send_request up to `response_rx.await`
SendRequest(r) ==
    /\ reqs[r].pc = "idle"
    /\ \A r2 \in Reqs : r2 < r => reqs[r2].pc # "idle"
    /\ sender # "disconnecting"
    /\ IF sender = "none"
       THEN /\ reqs' = Returned(r, "not_connected")
            /\ cmd_queue' = cmd_queue
       ELSE IF task = "exited"
       THEN /\ reqs' = Returned(r, "send_failed")
            /\ cmd_queue' = cmd_queue
       ELSE /\ reqs' = [reqs EXCEPT ![r].pc = "waiting", ![r].handle = "open"]
            /\ cmd_queue' = Enqueue(cmd_queue, SendCommand(r))
    /\ UNCHANGED <<now, ticks, task, health, sender, pending_requests, wire,
                   answers, frames, sweep_at, fedVars>>

\* send_request: `response_rx.await` completes
ReqReturn(r) ==
    /\ reqs[r].pc = "waiting"
    /\ reqs[r].handle \in {"sent", "dropped"}
    /\ reqs' = Returned(r, IF reqs[r].handle = "sent" THEN reqs[r].value.kind
                            ELSE "channel_closed")
    /\ UNCHANGED <<now, ticks, task, health, sender, cmd_queue, pending_requests,
                   wire, answers, frames, sweep_at, fedVars>>

\* `pending.sender.send(value)` for every entry of pend whose key is in ids
Complete(rq, pend, ids, kind) ==
    [r \in Reqs |->
        LET hit == {id \in ids : pend[id].sender = r}
        IN IF hit = {} THEN rq[r]
           ELSE [rq[r] EXCEPT !.handle = "sent",
                              !.completions = @ + Cardinality(hit),
                              !.value = IF rq[r].handle = "open"
                                        THEN [kind |-> kind, of |-> CHOOSE id \in hit : TRUE]
                                        ELSE @]]

\* `pending_requests.remove(id)`: the map it leaves
KeepAll(pend, ids) == pend
RemoveAll(pend, ids) == [id \in DOMAIN pend \ ids |-> pend[id]]

\* the loop takes ClientCommand::Send: the PendingRequest is stored and the
\* request written to the socket (sent says that the write succeeded)
CmdSend(sent) ==
    /\ task = "loop"
    /\ cmd_queue # <<>> /\ Head(cmd_queue).kind = "Send"
    /\ LET id == Head(cmd_queue).id
       IN /\ pending_requests' =
                 Put(pending_requests, id,
                     [sender |-> id, sent_at |-> now, timeout |-> TimeoutMs])
          /\ reqs' = [reqs EXCEPT ![id].stored = TRUE]
          /\ wire' = IF sent THEN wire \cup {id} ELSE wire
    /\ cmd_queue' = Tail(cmd_queue)
    /\ task' = IF sent THEN "loop" ELSE "closing"
    /\ health' = IF sent THEN [health EXCEPT !.message_count = @ + 1] ELSE health
    /\ sweep_at' = now + SweepInterval
    /\ UNCHANGED <<now, ticks, sender, answers, frames, fedVars>>

\* the loop takes ClientCommand::Disconnect
CmdDisconnect ==
    /\ task = "loop"
    /\ cmd_queue # <<>> /\ Head(cmd_queue).kind = "Disconnect"
    /\ cmd_queue' = Tail(cmd_queue)
    /\ task' = "closing"
    /\ UNCHANGED <<now, ticks, health, sender, pending_requests, reqs, wire,
                   answers, frames, sweep_at, fedVars>>

\* the key the response with this id is looked up under
MatchOther(id, pend) ==
    IF DOMAIN pend \ {id} # {} THEN CHOOSE k \in DOMAIN pend \ {id} : TRUE ELSE id
MatchKey(id, pend) == id

\* the loop reads a text frame that parses as the response to request id
RecvResponse(id) ==
    /\ task = "loop"
    /\ id \in wire
    /\ answers[id] = 0 \/ frames < MaxFrames
    /\ answers' = [answers EXCEPT ![id] = @ + 1]
    /\ LET key == MatchKey(id, pending_requests)
       IN IF key \in DOMAIN pending_requests
          THEN /\ pending_requests' = RemoveAll(pending_requests, {key})
               /\ health' = [health EXCEPT !.latency_ms =
                                 now - pending_requests[key].sent_at]
               /\ reqs' = [reqs EXCEPT
                      ![pending_requests[key].sender] =
                          [@ EXCEPT !.handle = "sent", !.completions = @ + 1,
                                    !.value = IF @ = NoValue
                                              THEN [kind |-> "response", of |-> id]
                                              ELSE @]]
          ELSE UNCHANGED <<pending_requests, health, reqs>>
    /\ frames' = IF answers[id] = 0 THEN frames ELSE frames + 1
    /\ sweep_at' = now + SweepInterval
    /\ UNCHANGED <<now, ticks, task, sender, cmd_queue, wire, fedVars>>

\* the loop reads a frame that is no response: text that does not parse
\* ("garbage"), or a binary, pong or raw frame ("ignored")
RecvFrame(kind) ==
    /\ task = "loop"
    /\ frames < MaxFrames
    /\ frames' = frames + 1
    /\ health' = IF kind = "garbage" THEN [health EXCEPT !.error_count = @ + 1]
                 ELSE health
    /\ sweep_at' = now + SweepInterval
    /\ UNCHANGED <<now, ticks, task, sender, cmd_queue, pending_requests, reqs,
                   wire, answers, fedVars>>

\* the loop reads Close, a socket error, or the end of the stream
RecvClose(error) ==
    /\ task = "loop"
    /\ task' = "closing"
    /\ health' = IF error THEN [health EXCEPT !.error_count = @ + 1] ELSE health
    /\ UNCHANGED <<now, ticks, sender, cmd_queue, pending_requests, reqs, wire,
                   answers, frames, sweep_at, fedVars>>

\* `elapsed > pending.timeout`
TimedOut(pend, t) == {id \in DOMAIN pend : t - pend[id].sent_at > pend[id].timeout}

\* the loop's sleep completes: the timeout cleanup
Sweep ==
    /\ task = "loop"
    /\ now >= sweep_at
    /\ LET timed_out == TimedOut(pending_requests, now)
       IN /\ reqs' = Complete(reqs, pending_requests, timed_out, "timeout")
          /\ pending_requests' = RemoveAll(pending_requests, timed_out)
          /\ health' = [health EXCEPT !.error_count = @ + Cardinality(timed_out)]
    /\ sweep_at' = now + SweepInterval
    /\ UNCHANGED <<now, ticks, task, sender, cmd_queue, wire, answers, frames,
                   fedVars>>

\* after the loop: the heartbeat is aborted and health set to Disconnected
TeardownHealth ==
    /\ task = "closing"
    /\ task' = "failing"
    /\ health' = [health EXCEPT !.state = "Disconnected"]
    /\ UNCHANGED <<now, ticks, sender, cmd_queue, pending_requests, reqs, wire,
                   answers, frames, sweep_at, fedVars>>

\* what becomes of the oneshot Sender of a command left in the channel when
\* the receiver is dropped
LeftOpen(h) == h
Dropped(h) == "dropped"

\* after the loop: every pending request is failed and the task returns,
\* dropping cmd_rx and the commands left in it
TeardownFail ==
    /\ task = "failing"
    /\ task' = "exited"
    /\ LET failed == Complete(reqs, pending_requests, DOMAIN pending_requests, "closed")
           queued == {cmd_queue[i].id : i \in {j \in 1..Len(cmd_queue) :
                                                  cmd_queue[j].kind = "Send"}}
       IN reqs' = [r \in Reqs |->
                     IF r \in queued THEN [failed[r] EXCEPT !.handle = Dropped(@)]
                     ELSE failed[r]]
    /\ pending_requests' = RemoveAll(pending_requests, DOMAIN pending_requests)
    /\ cmd_queue' = <<>>
    /\ UNCHANGED <<now, ticks, health, sender, wire, answers, frames, sweep_at,
                   fedVars>>

\* disconnect: the command is sent (no send_request borrows the client)
Disconnect ==
    /\ sender = "some"
    /\ \A r \in Reqs : reqs[r].pc # "waiting"
    /\ sender' = "disconnecting"
    /\ cmd_queue' = IF task = "exited" THEN cmd_queue
                    ELSE Append(cmd_queue, DisconnectCommand)
    /\ UNCHANGED <<now, ticks, task, health, pending_requests, reqs, wire,
                   answers, frames, sweep_at, fedVars>>

\* disconnect: the task has ended
DisconnectDone ==
    /\ sender = "disconnecting"
    /\ task = "exited"
    /\ sender' = "none"
    /\ health' = [health EXCEPT !.state = "Disconnected"]
    /\ UNCHANGED <<now, ticks, task, cmd_queue, pending_requests, reqs, wire,
                   answers, frames, sweep_at, fedVars>>

\* Time passes while the loop waits; its sleep does not outlast its second.
ClientTick(d) ==
    /\ ticks < MaxTicks
    /\ task = "loop" /\ now + d <= sweep_at
    /\ now' = now + d
    /\ ticks' = ticks + 1
    /\ UNCHANGED <<clientVars, fedVars>>

\* ------------------------------------------- connection_task: heartbeat
\* tokio::time::interval(Duration::from_secs(30)) of the heartbeat task, ms
HeartbeatInterval == 30000

heartbeatRest == <<ticks, ops, cmd_queue, pending_requests, reqs, wire, answers,
                   frames, sender, task, settings, failure_tracker, metrics,
                   connected, tools, calls, streak, tool_cache, syncs, lastSync,
                   sync_all, backoff, regcall, conn, mgr, locks, validate, listeners>>

\* The heartbeat task's interval ticks (the first tick at once): the task
\* takes the health write lock and stamps last_heartbeat.  It holds no
\* handle on the socket.
Heartbeat ==
    /\ task = "loop"
    /\ heartbeat_at # NoInstant /\ now >= heartbeat_at
    /\ health' = [health EXCEPT !.last_heartbeat = now]
    /\ heartbeat_at' = heartbeat_at + HeartbeatInterval
    /\ UNCHANGED <<now, sweep_at, heartbeatRest>>

\* Time passes up to the interval's next tick while nothing is in flight:
\* the select loop's one-second sleeps in between find nothing to time out.
HeartbeatSleep ==
    /\ ticks < MaxTicks
    /\ task = "loop"
    /\ heartbeat_at # NoInstant /\ now < heartbeat_at
    /\ pending_requests = [x \in {} |-> 0] /\ cmd_queue = <<>>
    /\ now' = heartbeat_at
    /\ ticks' = ticks + 1
    /\ sweep_at' = heartbeat_at + SweepInterval
    /\ UNCHANGED <<health, heartbeat_at, cmd_queue, pending_requests, reqs, wire,
                   answers, frames, sender, task, ops, settings, failure_tracker,
                   metrics, connected, tools, calls, streak, tool_cache, syncs,
                   lastSync, sync_all, backoff, regcall, conn, mgr, locks, validate,
                   listeners>>

\* ----------------------------------------------- McpClient::new, connect
\* ConnectionHealth::default()
NewHealth == [state |-> "Disconnected", message_count |-> 0, error_count |-> 0,
              last_heartbeat |-> NoInstant,
              latency_ms |-> 0]

\* is_connected
IsConnectedNever(h) == FALSE
IsConnected(h) == h.state = "Connected"

\* No connect was called.  spawned counts `tokio::spawn` of connect, channels
\* its `mpsc::unbounded_channel()`; old_handshake and old_loop count the
\* tasks whose JoinHandle and command Sender a later connect replaced, by
\* where they are: before the end of `connect_async`, or in the select loop.
IdleConn ==
    [pc |-> "idle", ret |-> "", spawned |-> 0, channels |-> 0,
     old_handshake |-> 0, old_loop |-> 0]

\* what connect, the handshake and the replaced tasks leave alone of the
\* federation manager
restVars == <<settings, failure_tracker, metrics, connected, tools, calls, streak,
              tool_cache, syncs, lastSync, sync_all, backoff, regcall, mgr, locks, validate, heartbeat_at, listeners>>

\* connect, up to its wait loop.  The caller holds the client exclusively
\* (`&mut self`).  A task that has left its loop and set Disconnected has
\* only its own pending map left to fail: that step is taken first.
Connect ==
    /\ conn.pc # "waiting"
    /\ sender # "disconnecting"
    /\ \A r \in Reqs : reqs[r].pc # "waiting"
    /\ task # "failing"
    /\ ops < MaxOps
    /\ ops' = ops + 1
    /\ IF IsConnected(health)
       THEN /\ conn' = [conn EXCEPT !.pc = "returned", !.ret = "ok"]
            /\ UNCHANGED <<task, health, sender, cmd_queue, pending_requests, wire,
                           sweep_at>>
       ELSE /\ health' = [health EXCEPT !.state = "Connecting"]
            /\ sender' = "some"
            /\ cmd_queue' = <<>>
            /\ task' = "handshake"
            /\ pending_requests' = [x \in {} |-> 0]
            /\ wire' = {}
            /\ sweep_at' = NoInstant
            /\ conn' = [conn EXCEPT
                   !.pc = "waiting", !.ret = "",
                   !.spawned = @ + 1, !.channels = @ + 1,
                   !.old_handshake = IF task = "handshake" THEN @ + 1 ELSE @,
                   !.old_loop = IF task \in {"loop", "closing"} THEN @ + 1 ELSE @]
    /\ UNCHANGED <<now, ticks, reqs, answers, frames, restVars>>

\* connect: its wait loop sees Connected
ConnectOk ==
    /\ conn.pc = "waiting"
    /\ IsConnected(health)
    /\ conn' = [conn EXCEPT !.pc = "returned", !.ret = "ok"]
    /\ UNCHANGED <<now, ticks, ops, clientVars, restVars>>

\* connect: 30 looks, 100 ms apart, did not see Connected
ConnectTimeout ==
    /\ conn.pc = "waiting"
    /\ ~IsConnected(health)
    /\ conn' = [conn EXCEPT !.pc = "returned", !.ret = "timeout"]
    /\ UNCHANGED <<now, ticks, ops, clientVars, restVars>>

\* connection_task: `connect_async` succeeds, health becomes Connected and
\* the select loop starts
HandshakeOk ==
    /\ task = "handshake"
    /\ task' = "loop"
    /\ health' = [health EXCEPT !.state = "Connected"]
    /\ sweep_at' = now + SweepInterval
    /\ UNCHANGED <<now, ticks, sender, cmd_queue, pending_requests, reqs, wire,
                   answers, frames, fedVars>>

\* connection_task: `connect_async` fails and the task returns through `?`,
\* dropping cmd_rx and the commands in it
HandshakeFail ==
    /\ task = "handshake"
    /\ task' = "exited"
    /\ LET queued == {cmd_queue[i].id : i \in {j \in 1..Len(cmd_queue) :
                                                  cmd_queue[j].kind = "Send"}}
       IN reqs' = [r \in Reqs |->
                     IF r \in queued THEN [reqs[r] EXCEPT !.handle = "dropped"]
                     ELSE reqs[r]]
    /\ cmd_queue' = <<>>
    /\ UNCHANGED <<now, ticks, health, sender, pending_requests, wire, answers,
                   frames, sweep_at, fedVars>>

\* a replaced task: its `connect_async` succeeds
OldHandshakeOk ==
    /\ conn.old_handshake > 0
    /\ conn' = [conn EXCEPT !.old_handshake = @ - 1, !.old_loop = @ + 1]
    /\ health' = [health EXCEPT !.state = "Connected"]
    /\ UNCHANGED <<now, ticks, ops, task, sender, cmd_queue, pending_requests, reqs,
                   wire, answers, frames, sweep_at, restVars>>

\* a replaced task: its `connect_async` fails
OldHandshakeFail ==
    /\ conn.old_handshake > 0
    /\ conn' = [conn EXCEPT !.old_handshake = @ - 1]
    /\ UNCHANGED <<now, ticks, ops, clientVars, restVars>>

\* a replaced task: its channel has no Sender, `cmd_rx.recv()` gives None,
\* the loop ends, health is set to Disconnected and the task returns
OldLoopExit ==
    /\ conn.old_loop > 0
    /\ conn' = [conn EXCEPT !.old_loop = @ - 1]
    /\ health' = [health EXCEPT !.state = "Disconnected"]
    /\ UNCHANGED <<now, ticks, ops, task, sender, cmd_queue, pending_requests, reqs,
                   wire, answers, frames, sweep_at, restVars>>


\* ------------------------- McpFederationManager: connect_all, shutdown
\* The manager before initialize: no client, no periodic task.  pc is where
\* connect_all or shutdown is; sync_handle is "running" while the periodic
\* task lives, "aborting" once abort() was called on it while it was being
\* polled, "cancelled" once it was dropped; disconnected are the clients
\* shutdown has disconnected; client is, per backend, the ConnectionState
\* where its connection task and its connect call are, and whether the state
\* was Connected at some time during the connect_all call.
NewClient ==
    [state |-> "Disconnected", task |-> "none", connect |-> "none", reached |-> FALSE]

IdleMgr ==
    [pc |-> "idle", ret |-> "", clients |-> {}, sync_handle |-> "none",
     disconnected |-> {}, active_connections |-> 0, total_servers |-> 0,
     successful_connections |-> 0,
     client |-> [s \in Servers |-> NewClient]]

\* what the shutdown steps leave alone
quietVars == <<now, ticks, ops, settings, tools, calls, streak, syncs, lastSync,
               sync_all, backoff, regcall, conn, locks, validate, heartbeat_at, listeners, clientVars>>

\* The periodic task is inside one poll: it runs on, up to its next await
\* that is not ready.  Waiting for the backend's answer is such an await.
Polled == \E y \in Syncs : syncs[y].pc \notin {"idle", "listing"}

\* `handle.abort()`: a task that waits is dropped; a task that is being
\* polled on another worker is dropped when that poll ends
Abort(polled) == IF polled THEN "aborting" ELSE "cancelled"

\* shutdown: the periodic task is aborted
ShutdownAbort ==
    /\ mgr.pc = "idle"
    /\ mgr.sync_handle = "running"
    /\ mgr' = [mgr EXCEPT !.pc = "disconnecting", !.sync_handle = Abort(Polled)]
    /\ UNCHANGED <<failure_tracker, metrics, connected, tool_cache, quietVars>>

\* the aborted task reaches an await that is not ready and is dropped
PeriodicDropped ==
    /\ mgr.sync_handle = "aborting"
    /\ mgr' = [mgr EXCEPT !.sync_handle = "cancelled"]
    /\ UNCHANGED <<failure_tracker, metrics, connected, tool_cache, quietVars>>

\* shutdown: the next client is disconnected (the write lock on it is free:
\* a sync holds the read lock only while it waits for the backend)
ShutdownDisconnect(sid) ==
    /\ mgr.pc = "disconnecting"
    /\ sid \in mgr.clients \ mgr.disconnected
    /\ mgr' = [mgr EXCEPT !.disconnected = @ \cup {sid},
                          !.client[sid].state = "Disconnected"]
    /\ connected' = [connected EXCEPT ![sid] = FALSE]
    /\ UNCHANGED <<failure_tracker, metrics, tool_cache, quietVars>>

\* shutdown: `clients.clear()`, `failure_tracker.clear()`, `tool_cache.clear()`
ShutdownClear ==
    /\ mgr.pc = "disconnecting"
    /\ mgr.disconnected = mgr.clients
    /\ mgr' = [mgr EXCEPT !.pc = "cleared", !.clients = {}]
    /\ failure_tracker' = [s \in {} |-> NewCircuit(1)]
    /\ tool_cache' = [x \in {} |-> 0]
    /\ UNCHANGED <<metrics, connected, quietVars>>

\* shutdown: active_connections is set to 0 and shutdown returns
ShutdownReturn ==
    /\ mgr.pc = "cleared"
    /\ mgr' = [mgr EXCEPT !.pc = "returned", !.ret = "ok", !.active_connections = 0]
    /\ UNCHANGED <<failure_tracker, metrics, connected, tool_cache, quietVars>>

\* connect_all: the tasks whose connect returned Ok
SuccessfulAll(cl, ids) == Cardinality(ids)
Successful(cl, ids) == Cardinality({s \in ids : cl[s].connect = "ok"})

\* what the connect_all steps leave alone
stillVars == <<now, ticks, settings, failure_tracker, metrics, connected, tools,
               calls, streak, tool_cache, syncs, lastSync, sync_all, backoff,
               regcall, conn, locks, validate, heartbeat_at, listeners, clientVars>>

\* connect_all: one task per client of the map is spawned
ConnectAllStart ==
    /\ mgr.pc = "idle"
    /\ ops < MaxOps
    /\ ops' = ops + 1
    /\ mgr' = [mgr EXCEPT
           !.pc = "joining", !.ret = "",
           !.client = [s \in Servers |->
                          IF s \in mgr.clients
                          THEN [mgr.client[s] EXCEPT
                                   !.connect = "spawned",
                                   !.reached = (mgr.client[s].state = "Connected")]
                          ELSE mgr.client[s]]]
    /\ UNCHANGED stillVars

\* a spawned task takes the client's write lock and calls connect, which
\* returns at once on a Connected client and else spawns the connection task
ClientConnect(sid) ==
    /\ mgr.pc = "joining"
    /\ mgr.client[sid].connect = "spawned"
    /\ mgr' = [mgr EXCEPT !.client[sid] =
                  IF @.state = "Connected"
                  THEN [@ EXCEPT !.connect = "ok"]
                  ELSE [@ EXCEPT !.connect = "waiting", !.state = "Connecting",
                                 !.task = "handshake"]]
    /\ UNCHANGED <<ops, stillVars>>

\* a client's connection task: `connect_async` succeeds
ClientHandshakeOk(sid) ==
    /\ mgr.client[sid].task = "handshake"
    /\ mgr' = [mgr EXCEPT !.client[sid].task = "loop",
                          !.client[sid].state = "Connected",
                          !.client[sid].reached = TRUE]
    /\ UNCHANGED <<ops, stillVars>>

\* a client's connection task: `connect_async` fails
ClientHandshakeFail(sid) ==
    /\ mgr.client[sid].task = "handshake"
    /\ mgr' = [mgr EXCEPT !.client[sid].task = "exited"]
    /\ UNCHANGED <<ops, stillVars>>

\* a client's connection task: the backend closes the socket, the loop ends
ClientClosed(sid) ==
    /\ mgr.client[sid].task = "loop"
    /\ mgr' = [mgr EXCEPT !.client[sid].task = "exited",
                          !.client[sid].state = "Disconnected"]
    /\ UNCHANGED <<ops, stillVars>>

\* a client's connect: its wait loop sees Connected
ClientConnectOk(sid) ==
    /\ mgr.client[sid].connect = "waiting"
    /\ mgr.client[sid].state = "Connected"
    /\ mgr' = [mgr EXCEPT !.client[sid].connect = "ok"]
    /\ UNCHANGED <<ops, stillVars>>

\* a client's connect: 30 looks did not see Connected
ClientConnectTimeout(sid) ==
    /\ mgr.client[sid].connect = "waiting"
    /\ mgr.client[sid].state # "Connected"
    /\ mgr' = [mgr EXCEPT !.client[sid].connect = "timeout"]
    /\ UNCHANGED <<ops, stillVars>>

\* connect_all: join_all returns, the results are counted into the metrics
ConnectAllJoin ==
    /\ mgr.pc = "joining"
    /\ \A s \in mgr.clients : mgr.client[s].connect \in {"ok", "timeout"}
    /\ LET n == Successful(mgr.client, mgr.clients)
       IN mgr' = [mgr EXCEPT
              !.pc = "done",
              !.successful_connections = n,
              !.active_connections = n,
              !.total_servers = Cardinality(mgr.clients),
              !.ret = IF n > 0 THEN "ok" ELSE "error"]
    /\ UNCHANGED <<ops, stillVars>>

\* connect_all returns
ConnectAllReturn ==
    /\ mgr.pc = "done"
    /\ mgr' = [mgr EXCEPT !.pc = "idle"]
    /\ UNCHANGED <<ops, stillVars>>

\* -------------------------------- locks, suspension points and workers
\* Operations that run side by side, each on a backend of its own (operation
\* o works on backend o); the worker threads of the runtime; the shards of
\* the tool_cache DashMap, each behind one synchronous lock.
LockOps == 1..4
Workers == 1..2
Shards == 1..2
NoOp == 0

\* An operation: a sync_server_tools ("sync") or forward_to_downstream
\* ("forward") whose backend has answered.  on is the worker that polls its
\* task, 0 while the task is queued or suspended.
IdleOp == [kind |-> "", pc |-> "idle", on |-> 0]

\* shard is the shard the backend's key hashes to; cache and metrics name
\* the operation that holds the shard's guard, or the metrics write guard.
IdleLocks ==
    [shard |-> [o \in LockOps |-> 1], cache |-> [k \in Shards |-> NoOp],
     metrics |-> NoOp, op |-> [o \in LockOps |-> IdleOp]]

\* what the lock steps leave alone
lockRest == <<now, ticks, ops, settings, failure_tracker, metrics, connected,
              tools, calls, streak, tool_cache, syncs, lastSync, sync_all, backoff,
              regcall, conn, mgr, validate, heartbeat_at, listeners, clientVars>>

\* the operation is at `metrics.write().await`
AtMetricsAwait(o) == locks.op[o].pc \in {"hit_metrics", "miss_metrics", "fwd_metrics"}

\* the operation's thread waits in `tool_cache.get_mut` or `tool_cache.insert`
\* for the guard of its shard
BlockedOnShard(o) ==
    /\ locks.op[o].on # 0
    /\ locks.op[o].pc \in {"lookup", "insert"}
    /\ locks.cache[locks.shard[o]] # NoOp

\* the backend of operation o has answered and its task is woken
OpWoken(o, kind) ==
    /\ locks.op[o].pc = "idle"
    /\ \A o2 \in LockOps : o2 < o => locks.op[o2].pc # "idle"
    /\ locks' = [locks EXCEPT !.op[o] =
                    [kind |-> kind, on |-> 0,
                     pc |-> IF kind = "sync" THEN "lookup" ELSE "fwd_metrics"]]
    /\ UNCHANGED lockRest

\* a free worker polls a task that is queued, or that was suspended on the
\* metrics lock and woken by its release
OpPolled(o, w) ==
    /\ locks.op[o].pc \notin {"idle", "done"}
    /\ locks.op[o].on = 0
    /\ AtMetricsAwait(o) => locks.metrics = NoOp
    /\ \A o2 \in LockOps : locks.op[o2].on # w
    /\ locks' = [locks EXCEPT !.op[o].on = w]
    /\ UNCHANGED lockRest

\* sync_server_tools: `tool_cache.get_mut(&server_id)`.  On a hit the RefMut
\* lives until the return, past record_success_shared; else it is dropped
\* when the `if let` ends.
SyncLookup(o, hit) ==
    /\ locks.op[o].pc = "lookup"
    /\ locks.op[o].on # 0
    /\ locks.cache[locks.shard[o]] = NoOp
    /\ locks' = IF hit
                THEN [locks EXCEPT !.cache[locks.shard[o]] = o,
                                   !.op[o].pc = "hit_metrics"]
                ELSE [locks EXCEPT !.op[o].pc = "insert"]
    /\ UNCHANGED lockRest

\* sync_server_tools: `tool_cache.insert(..)` after the registrations
SyncInsert(o) ==
    /\ locks.op[o].pc = "insert"
    /\ locks.op[o].on # 0
    /\ locks.cache[locks.shard[o]] = NoOp
    /\ locks' = [locks EXCEPT !.op[o].pc = "miss_metrics"]
    /\ UNCHANGED lockRest

\* record_success_shared: `metrics.write().await` takes the lock, or
\* suspends the task while another operation holds it
AwaitMetrics(o) ==
    /\ AtMetricsAwait(o)
    /\ locks.op[o].on # 0
    /\ locks' = IF locks.metrics = NoOp
                THEN [locks EXCEPT
                         !.metrics = o,
                         !.op[o].pc = IF locks.op[o].pc = "hit_metrics"
                                      THEN "hit_update" ELSE "update"]
                ELSE [locks EXCEPT !.op[o].on = 0]
    /\ UNCHANGED lockRest

\* record_success_shared returns and the operation with it: the metrics
\* guard is dropped, and on the hit path the cache RefMut
OpReturns(o) ==
    /\ locks.op[o].pc \in {"hit_update", "update"}
    /\ locks.op[o].on # 0
    /\ locks' = [locks EXCEPT
           !.metrics = NoOp,
           !.cache = IF locks.op[o].pc = "hit_update"
                     THEN [@ EXCEPT ![locks.shard[o]] = NoOp] ELSE @,
           !.op[o].pc = "done", !.op[o].on = 0]
    /\ UNCHANGED lockRest

\* a step of an operation that has started
LockStep ==
    \/ \E o \in LockOps, w \in Workers : OpPolled(o, w)
    \/ \E o \in LockOps, hit \in BOOLEAN : SyncLookup(o, hit)
    \/ \E o \in LockOps : SyncInsert(o)
    \/ \E o \in LockOps : AwaitMetrics(o)
    \/ \E o \in LockOps : OpReturns(o)

\* --------------------------------------------- validate_tool_arguments
\* Property names that schemas and argument objects use.
Fields == {"query", "other_field"}
\* JSON values, as far as a "type" keyword tells them apart.
JsonTypes == {"string", "number"}

\* Input schemas of registered tools: an object schema with "required" and
\* one typed property.  compiles is FALSE for a document JSONSchema::compile
\* rejects (a keyword of the wrong shape beside "required").
SchemaChoices ==
    [ compiles : BOOLEAN,
      required : {{}, {"query"}},
      properties : [{"query"} -> JsonTypes] ]

\* Argument objects: some of the fields, each with a value of some type.
ArgumentChoices ==
    UNION {[fs -> JsonTypes] : fs \in SUBSET Fields}

\* Concurrent validate_tool_arguments callers (one per tools/call request).
Validators == 1..2

\* schema.validate(arguments): the errors of the instance
ValidationErrorsTypesOnly(schema, args) ==
    {<<"type", f>> : f \in {g \in DOMAIN args \cap DOMAIN schema.properties :
                              args[g] # schema.properties[g]}}
ValidationErrors(schema, args) ==
    {<<"required", f>> : f \in schema.required \ DOMAIN args}
      \cup {<<"type", f>> : f \in {g \in DOMAIN args \cap DOMAIN schema.properties :
                                    args[g] # schema.properties[g]}}

\* Result<(), Vec<String>>
ValidOk == [ok |-> TRUE, errors |-> {}]
ValidErr(messages) == [ok |-> FALSE, errors |-> messages]

IdleValidation ==
    [pc |-> "idle", name |-> "", args |-> <<>>, errors |-> {}, ret |-> ValidOk]

\* call holds the invocations that were started, by caller
IdleValidate == [schema_validation_errors |-> 0, call |-> [v \in {} |-> IdleValidation]]

\* the invocation of caller v in vd, a value of validate
ValidationOf(vd, v) == IF v \in DOMAIN vd.call THEN vd.call[v] ELSE IdleValidation

validateRest == <<now, ticks, settings, failure_tracker, metrics, connected,
                  tools, calls, streak, tool_cache, syncs, lastSync, sync_all, backoff,
                  regcall, conn, mgr, locks, heartbeat_at, listeners, clientVars>>

\* validate_tool_arguments up to `self.metrics.write().await`: the lookup,
\* the compilation of the schema and the validation of the arguments
ValidateCall(v, name, args) ==
    /\ ValidationOf(validate, v).pc \in {"idle", "done"}
    /\ ops < MaxOps
    /\ ops' = ops + 1
    /\ LET started == [IdleValidation EXCEPT !.name = name, !.args = args]
           errors == ValidationErrors(tools[name].input_schema, args)
       IN  validate' = [validate EXCEPT !.call = Put(@, v,
             IF name \notin DOMAIN tools
             THEN [started EXCEPT !.pc = "done",
                                  !.ret = ValidErr({<<"not found", name>>})]
             ELSE IF ~tools[name].input_schema.compiles
             THEN [started EXCEPT !.pc = "done",
                                  !.ret = ValidErr({<<"invalid schema", name>>})]
             ELSE IF errors # {}
             THEN [started EXCEPT !.pc = "counting", !.errors = errors]
             ELSE [started EXCEPT !.pc = "done", !.ret = ValidOk])]
    /\ UNCHANGED validateRest

\* schema_validation_errors += 1 under the metrics write lock, return Err
ValidateCount(v) ==
    /\ ValidationOf(validate, v).pc = "counting"
    /\ validate' = [validate EXCEPT
           !.schema_validation_errors = @ + 1,
           !.call[v].pc = "done",
           !.call[v].ret = ValidErr(validate.call[v].errors)]
    /\ UNCHANGED <<ops, validateRest>>

\* ------------------------------------------------------ change listeners
\* How many listeners one behaviour adds.
MaxListeners == 3

\* The tasks notify_listeners spawned that have not finished.
Notifiers == 1..2

\* a spawned task: its position and its `dead_listeners`
IdleNotifier == [pc |-> "idle", dead_listeners |-> <<>>]

\* list is `change_listeners`, each sender named by the number of its
\* channel; open are the channels whose receiver is not dropped; added counts
\* the add_change_listener calls, panics the tasks that ended in a panic;
\* task holds the spawned tasks that have not finished.
IdleListeners ==
    [list |-> <<>>, open |-> {}, added |-> 0, panics |-> 0,
     task |-> [n \in {} |-> IdleNotifier]]

\* the listeners without the task n
Finished(n) == [m \in DOMAIN listeners.task \ {n} |-> listeners.task[m]]

listenersRest == <<now, ticks, settings, failure_tracker, metrics, connected,
                   tools, calls, streak, tool_cache, syncs, lastSync, sync_all,
                   backoff, regcall, conn, mgr, locks, validate, heartbeat_at,
                   clientVars>>

\* add_change_listener: a new channel, its sender pushed under the write lock
AddChangeListener ==
    /\ listeners.added < MaxListeners
    /\ LET id == listeners.added + 1
       IN listeners' = [listeners EXCEPT !.list = Append(@, id),
                                         !.open = @ \cup {id},
                                         !.added = id]
    /\ UNCHANGED <<ops, listenersRest>>

\* the holder of a receiver drops it: every later send on the channel fails
ReceiverDropped(l) ==
    /\ l \in listeners.open
    /\ listeners' = [listeners EXCEPT !.open = @ \ {l}]
    /\ UNCHANGED <<ops, listenersRest>>

\* notify_listeners, called by register_tool, remove_tool and
\* remove_tools_from_source: the task is spawned and the caller goes on
NotifyListeners(n) ==
    /\ ops < MaxOps
    /\ n \notin DOMAIN listeners.task
    /\ ops' = ops + 1
    /\ listeners' = [listeners EXCEPT
           !.task = Put(@, n, [IdleNotifier EXCEPT !.pc = "spawned"])]
    /\ UNCHANGED listenersRest

\* `for (index, sender) in listeners.iter().enumerate()`: the indices, from
\* 0, of the senders whose send fails
DeadListeners(list, open) ==
    SelectSeq([i \in 1..Len(list) |-> i - 1], LAMBDA index : list[index + 1] \notin open)

\* The task under the read lock: the event is sent to every listener and the
\* indices of the failed sends are collected; with none the task ends, else
\* the read lock is dropped and the task waits for the write lock.
NotifySend(n) ==
    /\ n \in DOMAIN listeners.task
    /\ listeners.task[n].pc = "spawned"
    /\ LET dead == DeadListeners(listeners.list, listeners.open)
       IN listeners' = [listeners EXCEPT !.task =
              IF dead = <<>> THEN Finished(n)
              ELSE [@ EXCEPT ![n] = [pc |-> "pruning", dead_listeners |-> dead]]]
    /\ UNCHANGED <<ops, listenersRest>>

\* `Vec::remove(index)`, index < len
RemoveAt(list, index) == SubSeq(list, 1, index) \o SubSeq(list, index + 2, Len(list))

\* `for &index in dead_listeners.iter().rev() { listeners.remove(index); }`;
\* Vec::remove panics on an index that is not below the length
RECURSIVE PruneReversed(_, _)
PruneReversed(list, dead) ==
    IF dead = <<>> THEN [list |-> list, panicked |-> FALSE]
    ELSE LET index == dead[Len(dead)]
         IN IF index >= Len(list)
            THEN [list |-> list, panicked |-> TRUE]
            ELSE PruneReversed(RemoveAt(list, index), SubSeq(dead, 1, Len(dead) - 1))

\* The task under the write lock: the collected indices are removed from
\* the list as it is now.
NotifyPrune(n) ==
    /\ n \in DOMAIN listeners.task
    /\ listeners.task[n].pc = "pruning"
    /\ LET r == PruneReversed(listeners.list, listeners.task[n].dead_listeners)
       IN listeners' = [listeners EXCEPT !.list = r.list,
                                         !.panics = @ + (IF r.panicked THEN 1 ELSE 0),
                                         !.task = Finished(n)]
    /\ UNCHANGED <<ops, listenersRest>>

\* Which clients are Connected: all of them, or all but s2.
ConnectedChoices ==
    {[s \in Servers |-> TRUE], [s \in Servers |-> s # "s2"]}

Init ==
    /\ now = 0 /\ ticks = 0 /\ ops = 0
    /\ settings \in SettingsChoices
    /\ failure_tracker = [s \in {} |-> NewCircuit(1)]
    /\ metrics = InitMetrics
    /\ connected \in ConnectedChoices
    /\ tools = SyncedRegistry
    /\ calls = [c \in Calls |-> IdleCall]
    /\ streak = [s \in Servers |-> NoStreak]
    /\ tool_cache = SyncedCache(settings)
    /\ syncs = [y \in Syncs |-> IdleSync]
    /\ lastSync = [s \in Servers |-> NoSync]
    /\ task = "none" /\ health = InitHealth /\ sender = "none"
    /\ cmd_queue = <<>> /\ pending_requests = [x \in {} |-> 0]
    /\ reqs = [r \in Reqs |-> IdleReq] /\ wire = {}
    /\ answers = [r \in Reqs |-> 0] /\ frames = 0 /\ sweep_at = NoInstant
    /\ sync_all = IdleSyncAll
    /\ backoff = IdleBackoff(0)
    /\ regcall = IdleRegCall
    /\ conn = IdleConn
    /\ mgr = IdleMgr
    /\ locks = IdleLocks
    /\ validate = IdleValidate
    /\ heartbeat_at = NoInstant
    /\ listeners = IdleListeners

Next ==
    \/ \E c \in Calls, name \in CallNames : RouteForward(c, name)
    \/ \E c \in Calls : ForwardBlocked(c)
    \/ \E c \in Calls : ForwardNotConnected(c)
    \/ \E c \in Calls : ForwardSend(c)
    \/ \E c \in Calls : ForwardSuccess(c)
    \/ \E c \in Calls : ForwardFailure(c)
    \/ \E c \in Calls : ForwardWake(c)
    \/ \E c \in Calls : Return(c)
    \/ \E d \in TickSteps : Tick(d)

Spec == Init /\ [][Next]_vars

\* ---------------------------------------------------------------------
\* Plan calls beside one caller in Execute mode: the first slot forwards, the
\* others plan.
ForwardCalls == {c \in Calls : \A c2 \in Calls : c <= c2}
PlanCalls == Calls \ ForwardCalls

NextPlan ==
    \/ \E c \in ForwardCalls, name \in CallNames : RouteForward(c, name)
    \/ \E c \in ForwardCalls : ForwardBlocked(c)
    \/ \E c \in ForwardCalls : ForwardNotConnected(c)
    \/ \E c \in ForwardCalls : ForwardSend(c)
    \/ \E c \in ForwardCalls : ForwardSuccess(c)
    \/ \E c \in ForwardCalls : ForwardFailure(c)
    \/ \E c \in ForwardCalls : ForwardWake(c)
    \/ \E c \in PlanCalls, name \in PlanNames : RoutePlan(c, name)
    \/ \E c \in Calls : Return(c)
    \/ \E d \in TickSteps : Tick(d)

SpecPlan == Init /\ [][NextPlan]_vars

\* ---------------------------------------------------------------------
\* compute_backoff_duration alone.
\* How many evaluations with attempt, attempt + 1, ... one behaviour makes.
MaxEvals == 3

BackoffInitialChoices == {0, 1, 10, 16, 1000, WordMax}
BackoffMaxChoices == {0, 5, 10, 100, 5000, WordMax}
AttemptChoices == {0, 1, 14, 15, 16, 17, AttemptMax - 1, AttemptMax}

BackoffSettingsChoices ==
    [ circuit_breaker_threshold : {1},
      circuit_breaker_reset_seconds : {1},
      backoff_initial_ms : BackoffInitialChoices,
      backoff_max_ms : BackoffMaxChoices,
      max_retries : {0},
      tool_cache_ttl_seconds : {1} ]

\* compute_backoff_duration(settings, backoff.attempt)
BackoffCompute ==
    /\ backoff.pc = "idle"
    /\ \E j \in Jitters(settings) :
         backoff' = [backoff EXCEPT
             !.pc = "done",
             !.pre = BackoffMs(settings, backoff.attempt),
             !.total = ComputeBackoff(settings, backoff.attempt, j),
             !.evals = @ + 1]
    /\ UNCHANGED <<now, ticks, ops, settings, failure_tracker, metrics, connected,
                   tools, calls, streak, tool_cache, syncs, lastSync, sync_all,
                   regcall, conn, mgr, locks, validate, heartbeat_at, listeners, clientVars>>

\* the caller's next attempt: `attempt.saturating_add(1)`
BackoffAgain ==
    /\ backoff.pc = "done"
    /\ backoff.evals < MaxEvals
    /\ backoff.attempt < AttemptMax
    /\ backoff' = [backoff EXCEPT !.pc = "idle", !.attempt = @ + 1,
                                  !.prev = backoff.pre]
    /\ UNCHANGED <<now, ticks, ops, settings, failure_tracker, metrics, connected,
                   tools, calls, streak, tool_cache, syncs, lastSync, sync_all,
                   regcall, conn, mgr, locks, validate, heartbeat_at, listeners, clientVars>>

InitBackoff ==
    /\ now = 0 /\ ticks = 0 /\ ops = 0
    /\ settings \in BackoffSettingsChoices
    /\ failure_tracker = [s \in {} |-> NewCircuit(1)]
    /\ metrics = InitMetrics
    /\ connected = [s \in Servers |-> TRUE]
    /\ tools = SeededRegistry
    /\ calls = [c \in Calls |-> IdleCall]
    /\ streak = [s \in Servers |-> NoStreak]
    /\ tool_cache = [x \in {} |-> 0]
    /\ syncs = [y \in Syncs |-> IdleSync]
    /\ lastSync = [s \in Servers |-> NoSync]
    /\ task = "none" /\ health = InitHealth /\ sender = "none"
    /\ cmd_queue = <<>> /\ pending_requests = [x \in {} |-> 0]
    /\ reqs = [r \in Reqs |-> IdleReq] /\ wire = {}
    /\ answers = [r \in Reqs |-> 0] /\ frames = 0 /\ sweep_at = NoInstant
    /\ sync_all = IdleSyncAll
    /\ \E a \in AttemptChoices : backoff = IdleBackoff(a)
    /\ regcall = IdleRegCall
    /\ conn = IdleConn
    /\ mgr = IdleMgr
    /\ locks = IdleLocks
    /\ validate = IdleValidate
    /\ heartbeat_at = NoInstant
    /\ listeners = IdleListeners

NextBackoff == BackoffCompute \/ BackoffAgain

SpecBackoff == InitBackoff /\ [][NextBackoff]_vars

\* ---------------------------------------------------------------------
\* The ToolRegistry alone, from the state after one local tool was seeded:
\* registrations run beside one remove_tools_from_source.
LocalTool ==
    [name |-> "lt", description |-> "d", input_schema |-> "i",
     output_schema |-> NoSchema, source |-> Local, spec_hash |-> NoHash]

InitRegistry ==
    /\ now = 0 /\ ticks = 0 /\ ops = 0
    /\ settings = CHOOSE s \in SettingsChoices : TRUE
    /\ failure_tracker = [s \in {} |-> NewCircuit(1)]
    /\ metrics = InitMetrics
    /\ connected = [s \in Servers |-> TRUE]
    /\ tools = [n \in {LocalTool.name} |-> Entry(LocalTool, StoredHashSync(LocalTool))]
    /\ calls = [c \in Calls |-> IdleCall]
    /\ streak = [s \in Servers |-> NoStreak]
    /\ tool_cache = [x \in {} |-> 0]
    /\ syncs = [y \in Syncs |-> IdleSync]
    /\ lastSync = [s \in Servers |-> NoSync]
    /\ task = "none" /\ health = InitHealth /\ sender = "none"
    /\ cmd_queue = <<>> /\ pending_requests = [x \in {} |-> 0]
    /\ reqs = [r \in Reqs |-> IdleReq] /\ wire = {}
    /\ answers = [r \in Reqs |-> 0] /\ frames = 0 /\ sweep_at = NoInstant
    /\ sync_all = IdleSyncAll
    /\ backoff = IdleBackoff(0)
    /\ regcall = IdleRegCall
    /\ conn = IdleConn
    /\ mgr = IdleMgr
    /\ locks = IdleLocks
    /\ validate = IdleValidate
    /\ heartbeat_at = NoInstant
    /\ listeners = IdleListeners

NextRegistry ==
    \/ \E tool \in ToolSpecChoices : RegisterToolCall(tool)
    \/ \E tool \in ToolSpecChoices : RegisterToolSyncCall(tool)
    \/ \E sid \in Servers : RemoveCollect(sid)
    \/ \E n \in regcall.names : RemoveOne(n)
    \/ RemoveReturn

SpecRegistry == InitRegistry /\ [][NextRegistry]_vars

\* ---------------------------------------------------------------------
\* The syncs alone, from the state after seed_with_local_tools.
SyncSettingsChoices ==
    [ circuit_breaker_threshold : {1},
      circuit_breaker_reset_seconds : {1},
      backoff_initial_ms : {10},
      backoff_max_ms : {20},
      max_retries : {0},
      tool_cache_ttl_seconds : {0, 1} ]

\* Between sync steps the clock moves by less than the cache TTL; two such
\* moves exceed it.
SyncTickSteps == {600}

InitSync ==
    /\ now = 0 /\ ticks = 0 /\ ops = 0
    /\ settings \in SyncSettingsChoices
    /\ failure_tracker = [s \in {} |-> NewCircuit(1)]
    /\ metrics = InitMetrics
    /\ connected = [s \in Servers |-> s # "s2"]
    /\ tools = SeededRegistry
    /\ calls = [c \in Calls |-> IdleCall]
    /\ streak = [s \in Servers |-> NoStreak]
    /\ tool_cache = [x \in {} |-> 0]
    /\ syncs = [y \in Syncs |-> IdleSync]
    /\ lastSync = [s \in Servers |-> NoSync]
    /\ task = "none" /\ health = InitHealth /\ sender = "none"
    /\ cmd_queue = <<>> /\ pending_requests = [x \in {} |-> 0]
    /\ reqs = [r \in Reqs |-> IdleReq] /\ wire = {}
    /\ answers = [r \in Reqs |-> 0] /\ frames = 0 /\ sweep_at = NoInstant
    /\ sync_all = IdleSyncAll
    /\ backoff = IdleBackoff(0)
    /\ regcall = IdleRegCall
    /\ conn = IdleConn
    /\ mgr = IdleMgr
    /\ locks = IdleLocks
    /\ validate = IdleValidate
    /\ heartbeat_at = NoInstant
    /\ listeners = IdleListeners

\* a step of a sync_server_tools invocation after its circuit check
SyncStep ==
    \/ \E y \in Syncs : SyncSkipped(y)
    \/ \E y \in Syncs : SyncNotConnected(y)
    \/ \E y \in Syncs : SyncFetch(y)
    \/ \E y \in Syncs : SyncListFailed(y)
    \/ \E y \in Syncs : SyncListError(y)
    \/ \E y \in Syncs : SyncListMalformed(y)
    \/ \E y \in Syncs, payload \in PayloadChoices : SyncCacheHit(y, payload)
    \/ \E y \in Syncs, payload \in PayloadChoices : SyncCacheMiss(y, payload)
    \/ \E y \in Syncs : SyncRegister(y)
    \/ \E y \in Syncs : SyncFinish(y)

NextSync ==
    \/ (\E y \in Syncs, sid \in Servers : SyncStart(y, sid)) /\ UNCHANGED sync_all
    \/ SyncStep /\ UNCHANGED sync_all
    \/ (\E y \in Syncs : SyncReturn(y)) /\ UNCHANGED sync_all
    \/ \E d \in SyncTickSteps : Tick(d)

SpecSync == InitSync /\ [][NextSync]_vars

\* ---------------------------------------------------------------------
\* sync_all_servers alone, from the state after seed_with_local_tools, or
\* from the state a failed sync of the unconnected backend s2 at time 0 left:
\* with threshold 1 its circuit is open (the jitter of that failure is the
\* least one).
SyncAllSettings ==
    CHOOSE s \in SyncSettingsChoices : s.tool_cache_ttl_seconds = 1

FailedOnce(sid, jitter) ==
    RecordFailureTracker([s \in {} |-> NewCircuit(1)], sid, 0, jitter)

InitSyncAll ==
    /\ now = 0 /\ ticks = 0 /\ ops = 0
    /\ settings = SyncAllSettings
    /\ connected = [s \in Servers |-> s # "s2"]
    /\ \/ /\ failure_tracker = [s \in {} |-> NewCircuit(1)]
          /\ metrics = InitMetrics
          /\ streak = [s \in Servers |-> NoStreak]
       \/ \E j \in {0} :
             /\ failure_tracker = FailedOnce("s2", j)
             /\ metrics = RecordFailureMetrics(InitMetrics, FailedOnce("s2", j), "s2", 0)
             /\ streak = [s \in Servers |->
                            IF s = "s2"
                            THEN StreakAfterFailure(NoStreak, 0,
                                     RecordFailureRet([x \in {} |-> NewCircuit(1)],
                                                      "s2", 0, j))
                            ELSE NoStreak]
    /\ tools = SeededRegistry
    /\ calls = [c \in Calls |-> IdleCall]
    /\ tool_cache = [x \in {} |-> 0]
    /\ syncs = [y \in Syncs |-> IdleSync]
    /\ lastSync = [s \in Servers |-> NoSync]
    /\ task = "none" /\ health = InitHealth /\ sender = "none"
    /\ cmd_queue = <<>> /\ pending_requests = [x \in {} |-> 0]
    /\ reqs = [r \in Reqs |-> IdleReq] /\ wire = {}
    /\ answers = [r \in Reqs |-> 0] /\ frames = 0 /\ sweep_at = NoInstant
    /\ sync_all = IdleSyncAll
    /\ backoff = IdleBackoff(0)
    /\ regcall = IdleRegCall
    /\ conn = IdleConn
    /\ mgr = IdleMgr
    /\ locks = IdleLocks
    /\ validate = IdleValidate
    /\ heartbeat_at = NoInstant
    /\ listeners = IdleListeners

\* Time passes between the calls and while a task awaits its backend's
\* answer.
AwaitsBackend ==
    sync_all.pc = "idle" \/ \E y \in Syncs : syncs[y].pc = "listing"

NextSyncAll ==
    \/ SyncAllStart
    \/ \E sid \in Servers : SyncAllTask(sid)
    \/ SyncStep /\ UNCHANGED sync_all
    \/ SyncAllJoin
    \/ SyncAllReturn
    \/ /\ AwaitsBackend
       /\ \E d \in SyncTickSteps : Tick(d)

SpecSyncAll == InitSyncAll /\ [][NextSyncAll]_vars

\* ---------------------------------------------------------------------
\* One client, from the state connect leaves: the handshake is done, health
\* is Connected and the select loop has started its first sleep.
InitClient ==
    /\ now = 0 /\ ticks = 0 /\ ops = 0
    /\ settings \in {s \in SyncSettingsChoices : s.tool_cache_ttl_seconds = 0}
    /\ failure_tracker = [s \in {} |-> NewCircuit(1)]
    /\ metrics = InitMetrics
    /\ connected = [s \in Servers |-> TRUE]
    /\ tools = SeededRegistry
    /\ calls = [c \in Calls |-> IdleCall]
    /\ streak = [s \in Servers |-> NoStreak]
    /\ tool_cache = [x \in {} |-> 0]
    /\ syncs = [y \in Syncs |-> IdleSync]
    /\ lastSync = [s \in Servers |-> NoSync]
    /\ task = "loop" /\ health = InitHealth /\ sender = "some"
    /\ cmd_queue = <<>> /\ pending_requests = [x \in {} |-> 0]
    /\ reqs = [r \in Reqs |-> IdleReq] /\ wire = {}
    /\ answers = [r \in Reqs |-> 0] /\ frames = 0
    /\ sweep_at = SweepInterval
    /\ sync_all = IdleSyncAll
    /\ backoff = IdleBackoff(0)
    /\ regcall = IdleRegCall
    /\ conn = IdleConn
    /\ mgr = IdleMgr
    /\ locks = IdleLocks
    /\ validate = IdleValidate
    /\ heartbeat_at = NoInstant
    /\ listeners = IdleListeners

TaskStep ==
    \/ \E sent \in BOOLEAN : CmdSend(sent)
    \/ CmdDisconnect
    \/ \E id \in Reqs : RecvResponse(id)
    \/ \E kind \in {"garbage", "ignored"} : RecvFrame(kind)
    \/ \E error \in BOOLEAN : RecvClose(error)
    \/ Sweep
    \/ TeardownHealth
    \/ TeardownFail

NextClient ==
    \/ \E r \in Reqs : SendRequest(r)
    \/ \E r \in Reqs : ReqReturn(r)
    \/ TaskStep
    \/ Disconnect
    \/ DisconnectDone
    \/ \E d \in ClientTickSteps : ClientTick(d)

SpecClient == InitClient /\ [][NextClient]_vars

\* The runtime runs a task that can run, and wakes a caller whose channel
\* has a value or lost its sender.
SpecClientFair ==
    /\ SpecClient
    /\ WF_vars(TeardownHealth)
    /\ WF_vars(TeardownFail)
    /\ \A r \in Reqs : WF_vars(ReqReturn(r))

\* ---------------------------------------------------------------------
\* One client from McpClient::new on: connect, the handshake, the select
\* loop, disconnect, and connect again.  connect and disconnect take the
\* client exclusively, so no send_request starts while connect waits.
InitConnect ==
    /\ now = 0 /\ ticks = 0 /\ ops = 0
    /\ settings = SyncAllSettings
    /\ failure_tracker = [s \in {} |-> NewCircuit(1)]
    /\ metrics = InitMetrics
    /\ connected = [s \in Servers |-> TRUE]
    /\ tools = SeededRegistry
    /\ calls = [c \in Calls |-> IdleCall]
    /\ streak = [s \in Servers |-> NoStreak]
    /\ tool_cache = [x \in {} |-> 0]
    /\ syncs = [y \in Syncs |-> IdleSync]
    /\ lastSync = [s \in Servers |-> NoSync]
    /\ task = "none" /\ health = NewHealth /\ sender = "none"
    /\ cmd_queue = <<>> /\ pending_requests = [x \in {} |-> 0]
    /\ reqs = [r \in Reqs |-> IdleReq] /\ wire = {}
    /\ answers = [r \in Reqs |-> 0] /\ frames = 0 /\ sweep_at = NoInstant
    /\ sync_all = IdleSyncAll
    /\ backoff = IdleBackoff(0)
    /\ regcall = IdleRegCall
    /\ conn = IdleConn
    /\ mgr = IdleMgr
    /\ locks = IdleLocks
    /\ validate = IdleValidate
    /\ heartbeat_at = NoInstant
    /\ listeners = IdleListeners

ConnectStep ==
    \/ Connect
    \/ ConnectOk
    \/ ConnectTimeout

OldTaskStep ==
    \/ OldHandshakeOk
    \/ OldHandshakeFail
    \/ OldLoopExit

\* The steps of the task that move it or its requests on; the clock stands
\* still, so no sleep of the loop completes.
LoopStep ==
    \/ \E sent \in BOOLEAN : CmdSend(sent)
    \/ CmdDisconnect
    \/ \E id \in Reqs : RecvResponse(id)
    \/ \E error \in BOOLEAN : RecvClose(error)
    \/ TeardownHealth
    \/ TeardownFail

NextConnect ==
    \/ ConnectStep
    \/ HandshakeOk
    \/ HandshakeFail
    \/ OldTaskStep
    \/ conn.pc # "waiting" /\ \E r \in Reqs : SendRequest(r)
    \/ \E r \in Reqs : ReqReturn(r)
    \/ LoopStep
    \/ conn.pc # "waiting" /\ Disconnect
    \/ DisconnectDone

SpecConnect == InitConnect /\ [][NextConnect]_vars

\* The runtime runs a task that can run, and a caller that can return.
SpecConnectFair ==
    /\ SpecConnect
    /\ WF_vars(HandshakeOk \/ HandshakeFail)
    /\ WF_vars(OldTaskStep)
    /\ WF_vars(ConnectOk \/ ConnectTimeout)
    /\ WF_vars(TeardownHealth)
    /\ WF_vars(TeardownFail)
    /\ WF_vars(DisconnectDone)

\* ---------------------------------------------------------------------
\* shutdown beside the periodic sync task, from the state initialize and
\* connect_all leave: both clients in the map, s1 connected, the periodic
\* task running.
InitShutdown ==
    /\ now = 0 /\ ticks = 0 /\ ops = 0
    /\ settings \in SyncSettingsChoices
    /\ failure_tracker = [s \in {} |-> NewCircuit(1)]
    /\ metrics = InitMetrics
    /\ connected = [s \in Servers |-> s # "s2"]
    /\ tools = SeededRegistry
    /\ calls = [c \in Calls |-> IdleCall]
    /\ streak = [s \in Servers |-> NoStreak]
    /\ tool_cache = [x \in {} |-> 0]
    /\ syncs = [y \in Syncs |-> IdleSync]
    /\ lastSync = [s \in Servers |-> NoSync]
    /\ task = "none" /\ health = InitHealth /\ sender = "none"
    /\ cmd_queue = <<>> /\ pending_requests = [x \in {} |-> 0]
    /\ reqs = [r \in Reqs |-> IdleReq] /\ wire = {}
    /\ answers = [r \in Reqs |-> 0] /\ frames = 0 /\ sweep_at = NoInstant
    /\ sync_all = IdleSyncAll
    /\ backoff = IdleBackoff(0)
    /\ regcall = IdleRegCall
    /\ conn = IdleConn
    /\ locks = IdleLocks
    /\ validate = IdleValidate
    /\ heartbeat_at = NoInstant
    /\ listeners = IdleListeners
    /\ mgr = [IdleMgr EXCEPT
                 !.clients = Servers, !.sync_handle = "running",
                 !.active_connections = 1, !.total_servers = Cardinality(Servers),
                 !.client = [s \in Servers |->
                               IF s = "s2"
                               THEN [NewClient EXCEPT !.state = "Connecting",
                                       !.task = "exited", !.connect = "timeout"]
                               ELSE [NewClient EXCEPT !.state = "Connected",
                                       !.task = "loop", !.connect = "ok",
                                       !.reached = TRUE]]]

\* the periodic task calls sync_server_tools for a client of the map, one
\* call after the other
PeriodicSync(y, sid) ==
    /\ mgr.sync_handle \in {"running", "aborting"}
    /\ sid \in mgr.clients
    /\ \A y2 \in Syncs : syncs[y2].pc = "idle"
    /\ SyncStart(y, sid)
    /\ UNCHANGED <<sync_all, mgr, locks, validate, heartbeat_at, listeners>>

\* a step of the periodic task's sync_server_tools call: none once the task
\* is dropped, and none out of the wait for the backend once it is aborted
PeriodicStep ==
    /\ mgr.sync_handle \in {"running", "aborting"}
    /\ mgr.sync_handle = "aborting" => Polled
    /\ \/ SyncStep
       \/ \E y \in Syncs : SyncReturn(y)
    /\ UNCHANGED <<sync_all, mgr, locks, validate, heartbeat_at, listeners>>

NextShutdown ==
    \/ \E y \in Syncs, sid \in Servers : PeriodicSync(y, sid)
    \/ PeriodicStep
    \/ PeriodicDropped
    \/ ShutdownAbort
    \/ \E sid \in Servers : ShutdownDisconnect(sid)
    \/ ShutdownClear
    \/ ShutdownReturn

SpecShutdown == InitShutdown /\ [][NextShutdown]_vars

\* ---------------------------------------------------------------------
\* connect_all, from the state initialize leaves: a client per enabled
\* backend (none, one or both), none connected.
InitConnectAll ==
    /\ now = 0 /\ ticks = 0 /\ ops = 0
    /\ settings = SyncAllSettings
    /\ failure_tracker = [s \in {} |-> NewCircuit(1)]
    /\ metrics = InitMetrics
    /\ connected = [s \in Servers |-> FALSE]
    /\ tools = SeededRegistry
    /\ calls = [c \in Calls |-> IdleCall]
    /\ streak = [s \in Servers |-> NoStreak]
    /\ tool_cache = [x \in {} |-> 0]
    /\ syncs = [y \in Syncs |-> IdleSync]
    /\ lastSync = [s \in Servers |-> NoSync]
    /\ task = "none" /\ health = InitHealth /\ sender = "none"
    /\ cmd_queue = <<>> /\ pending_requests = [x \in {} |-> 0]
    /\ reqs = [r \in Reqs |-> IdleReq] /\ wire = {}
    /\ answers = [r \in Reqs |-> 0] /\ frames = 0 /\ sweep_at = NoInstant
    /\ sync_all = IdleSyncAll
    /\ backoff = IdleBackoff(0)
    /\ regcall = IdleRegCall
    /\ conn = IdleConn
    /\ locks = IdleLocks
    /\ validate = IdleValidate
    /\ heartbeat_at = NoInstant
    /\ listeners = IdleListeners
    /\ \E ids \in SUBSET Servers : mgr = [IdleMgr EXCEPT !.clients = ids]

NextConnectAll ==
    \/ ConnectAllStart
    \/ \E sid \in Servers : ClientConnect(sid)
    \/ \E sid \in Servers : ClientHandshakeOk(sid)
    \/ \E sid \in Servers : ClientHandshakeFail(sid)
    \/ \E sid \in Servers : ClientClosed(sid)
    \/ \E sid \in Servers : ClientConnectOk(sid)
    \/ \E sid \in Servers : ClientConnectTimeout(sid)
    \/ ConnectAllJoin
    \/ ConnectAllReturn

SpecConnectAll == InitConnectAll /\ [][NextConnectAll]_vars

\* ---------------------------------------------------------------------
\* Syncs and forwards on distinct backends whose answers have arrived, on
\* two workers; which shard a backend's cache key falls in depends on the
\* map's hasher.
InitLocks ==
    /\ now = 0 /\ ticks = 0 /\ ops = 0
    /\ settings = SyncAllSettings
    /\ failure_tracker = [s \in {} |-> NewCircuit(1)]
    /\ metrics = InitMetrics
    /\ connected = [s \in Servers |-> TRUE]
    /\ tools = SeededRegistry
    /\ calls = [c \in Calls |-> IdleCall]
    /\ streak = [s \in Servers |-> NoStreak]
    /\ tool_cache = [x \in {} |-> 0]
    /\ syncs = [y \in Syncs |-> IdleSync]
    /\ lastSync = [s \in Servers |-> NoSync]
    /\ task = "none" /\ health = InitHealth /\ sender = "none"
    /\ cmd_queue = <<>> /\ pending_requests = [x \in {} |-> 0]
    /\ reqs = [r \in Reqs |-> IdleReq] /\ wire = {}
    /\ answers = [r \in Reqs |-> 0] /\ frames = 0 /\ sweep_at = NoInstant
    /\ sync_all = IdleSyncAll
    /\ backoff = IdleBackoff(0)
    /\ regcall = IdleRegCall
    /\ conn = IdleConn
    /\ mgr = IdleMgr
    /\ \E sh \in [LockOps -> Shards] : locks = [IdleLocks EXCEPT !.shard = sh]
    /\ validate = IdleValidate
    /\ heartbeat_at = NoInstant
    /\ listeners = IdleListeners

NextLocks ==
    \/ \E o \in LockOps, kind \in {"sync", "forward"} : OpWoken(o, kind)
    \/ LockStep

SpecLocks == InitLocks /\ [][NextLocks]_vars

\* ---------------------------------------------------------------------
\* validate_tool_arguments called by concurrent requests on a registry that
\* holds one tool, whose input schema the registering side chose.
ValidatedTool == "test_tool"

InitValidate ==
    /\ now = 0 /\ ticks = 0 /\ ops = 0
    /\ settings = SyncAllSettings
    /\ failure_tracker = [s \in {} |-> NewCircuit(1)]
    /\ metrics = InitMetrics
    /\ connected = [s \in Servers |-> TRUE]
    /\ \E schema \in SchemaChoices :
         tools = [n \in {ValidatedTool} |-> [source |-> Local, input_schema |-> schema]]
    /\ calls = [c \in Calls |-> IdleCall]
    /\ streak = [s \in Servers |-> NoStreak]
    /\ tool_cache = [x \in {} |-> 0]
    /\ syncs = [y \in Syncs |-> IdleSync]
    /\ lastSync = [s \in Servers |-> NoSync]
    /\ task = "none" /\ health = InitHealth /\ sender = "none"
    /\ cmd_queue = <<>> /\ pending_requests = [x \in {} |-> 0]
    /\ reqs = [r \in Reqs |-> IdleReq] /\ wire = {}
    /\ answers = [r \in Reqs |-> 0] /\ frames = 0 /\ sweep_at = NoInstant
    /\ sync_all = IdleSyncAll
    /\ backoff = IdleBackoff(0)
    /\ regcall = IdleRegCall
    /\ conn = IdleConn
    /\ mgr = IdleMgr
    /\ locks = IdleLocks
    /\ validate = IdleValidate
    /\ heartbeat_at = NoInstant
    /\ listeners = IdleListeners

NextValidate ==
    \/ \E v \in Validators, name \in {ValidatedTool, "unknown_tool"},
          args \in ArgumentChoices : ValidateCall(v, name, args)
    \/ \E v \in Validators : ValidateCount(v)

SpecValidate == InitValidate /\ [][NextValidate]_vars

\* ---------------------------------------------------------------------
\* route_tool_call in Execute mode for every kind of name: a federated tool
\* of a backend with a client, the local tool, a name the registry does not
\* have, and a tool whose backend has no client (the registry keeps a
\* backend's tools when the client map is cleared).  s2 is not connected;
\* s1 and the backend without a client have a circuit state.
RoutedRegistry ==
    [n \in {"lt", "a", "b", "g"} |->
        [source |-> CASE n = "lt" -> Local
                      [] n = "a" -> Federated("s1")
                      [] n = "b" -> Federated("s2")
                      [] OTHER -> Federated("gone")]]

RouteNames == {"a", "b", "lt", "g", "zz"}

InitRoute ==
    /\ now = 0 /\ ticks = 0 /\ ops = 0
    /\ settings = CHOOSE s \in SettingsChoices : s.circuit_breaker_threshold = 2
    /\ failure_tracker = [s \in {"s1", "gone"} |-> NewCircuit(1)]
    /\ metrics = InitMetrics
    /\ connected = [s \in Servers |-> s # "s2"]
    /\ tools = RoutedRegistry
    /\ calls = [c \in Calls |-> IdleCall]
    /\ streak = [s \in Servers |-> NoStreak]
    /\ tool_cache = [x \in {} |-> 0]
    /\ syncs = [y \in Syncs |-> IdleSync]
    /\ lastSync = [s \in Servers |-> NoSync]
    /\ task = "none" /\ health = InitHealth /\ sender = "none"
    /\ cmd_queue = <<>> /\ pending_requests = [x \in {} |-> 0]
    /\ reqs = [r \in Reqs |-> IdleReq] /\ wire = {}
    /\ answers = [r \in Reqs |-> 0] /\ frames = 0 /\ sweep_at = NoInstant
    /\ sync_all = IdleSyncAll
    /\ backoff = IdleBackoff(0)
    /\ regcall = IdleRegCall
    /\ conn = IdleConn
    /\ mgr = IdleMgr
    /\ locks = IdleLocks
    /\ validate = IdleValidate
    /\ heartbeat_at = NoInstant
    /\ listeners = IdleListeners

NextRoute ==
    \/ \E c \in Calls, name \in RouteNames : RouteForward(c, name)
    \/ \E c \in Calls, name \in RouteNames : RouteLocal(c, name)
    \/ \E c \in Calls, name \in RouteNames : RouteNotFound(c, name)
    \/ \E c \in Calls, name \in RouteNames : RouteNoClient(c, name)
    \/ \E c \in Calls : ForwardBlocked(c)
    \/ \E c \in Calls : ForwardNotConnected(c)
    \/ \E c \in Calls : ForwardSend(c)
    \/ \E c \in Calls : ForwardSuccess(c)
    \/ \E c \in Calls : ForwardFailure(c)
    \/ \E c \in Calls : ForwardWake(c)
    \/ \E c \in Calls : Return(c)
    \/ \E d \in TickSteps : Tick(d)

SpecRoute == InitRoute /\ [][NextRoute]_vars

\* ---------------------------------------------------------------------
\* The connection task from the moment its heartbeat task is spawned, with
\* requests sent and answered beside the heartbeat.
InitHeartbeat ==
    /\ now = 0 /\ ticks = 0 /\ ops = 0
    /\ settings = SyncAllSettings
    /\ failure_tracker = [s \in {} |-> NewCircuit(1)]
    /\ metrics = InitMetrics
    /\ connected = [s \in Servers |-> TRUE]
    /\ tools = SeededRegistry
    /\ calls = [c \in Calls |-> IdleCall]
    /\ streak = [s \in Servers |-> NoStreak]
    /\ tool_cache = [x \in {} |-> 0]
    /\ syncs = [y \in Syncs |-> IdleSync]
    /\ lastSync = [s \in Servers |-> NoSync]
    /\ task = "loop" /\ health = InitHealth /\ sender = "some"
    /\ cmd_queue = <<>> /\ pending_requests = [x \in {} |-> 0]
    /\ reqs = [r \in Reqs |-> IdleReq] /\ wire = {}
    /\ answers = [r \in Reqs |-> 0] /\ frames = 0
    /\ sweep_at = SweepInterval
    /\ sync_all = IdleSyncAll
    /\ backoff = IdleBackoff(0)
    /\ regcall = IdleRegCall
    /\ conn = IdleConn
    /\ mgr = IdleMgr
    /\ locks = IdleLocks
    /\ validate = IdleValidate
    /\ heartbeat_at = 0
    /\ listeners = IdleListeners

NextHeartbeat ==
    \/ Heartbeat
    \/ HeartbeatSleep
    \/ \E r \in Reqs : SendRequest(r)
    \/ \E r \in Reqs : ReqReturn(r)
    \/ \E sent \in BOOLEAN : CmdSend(sent)
    \/ \E id \in Reqs : RecvResponse(id)
    \/ \E error \in BOOLEAN : RecvClose(error)
    \/ TeardownHealth
    \/ TeardownFail

SpecHeartbeat == InitHeartbeat /\ [][NextHeartbeat]_vars

\* ---------------------------------------------------------------------
\* Forwarded calls on backends whose connection may be lost at any moment,
\* between the attempts of a call included; the second failure in a row
\* opens the circuit.
InitLost ==
    /\ now = 0 /\ ticks = 0 /\ ops = 0
    /\ settings = CHOOSE s \in SettingsChoices : s.circuit_breaker_threshold = 2
    /\ failure_tracker = [s \in {} |-> NewCircuit(1)]
    /\ metrics = InitMetrics
    /\ connected = [s \in Servers |-> TRUE]
    /\ tools = SyncedRegistry
    /\ calls = [c \in Calls |-> IdleCall]
    /\ streak = [s \in Servers |-> NoStreak]
    /\ tool_cache = SyncedCache(settings)
    /\ syncs = [y \in Syncs |-> IdleSync]
    /\ lastSync = [s \in Servers |-> NoSync]
    /\ task = "none" /\ health = InitHealth /\ sender = "none"
    /\ cmd_queue = <<>> /\ pending_requests = [x \in {} |-> 0]
    /\ reqs = [r \in Reqs |-> IdleReq] /\ wire = {}
    /\ answers = [r \in Reqs |-> 0] /\ frames = 0 /\ sweep_at = NoInstant
    /\ sync_all = IdleSyncAll
    /\ backoff = IdleBackoff(0)
    /\ regcall = IdleRegCall
    /\ conn = IdleConn
    /\ mgr = IdleMgr
    /\ locks = IdleLocks
    /\ validate = IdleValidate
    /\ heartbeat_at = NoInstant
    /\ listeners = IdleListeners

\* The calls are for the tool of s1; the clock moves by the longest backoff.
LostNames == {"a"}
LostTickSteps == {30}

NextLost ==
    \/ \E c \in Calls, name \in LostNames : RouteForward(c, name)
    \/ \E c \in Calls : ForwardBlocked(c)
    \/ \E c \in Calls : ForwardNotConnected(c)
    \/ \E c \in Calls : ForwardSend(c)
    \/ \E c \in Calls : ForwardSuccess(c)
    \/ \E c \in Calls : ForwardFailure(c)
    \/ \E c \in Calls : ForwardWake(c)
    \/ \E c \in Calls : Return(c)
    \/ \E sid \in {tools[n].source.server_id : n \in LostNames} : ConnectionLost(sid)
    \/ \E d \in LostTickSteps : Tick(d)

SpecLost == InitLost /\ [][NextLost]_vars

\* ---------------------------------------------------------------------
\* Syncs over the names a configuration and a backend may choose: a backend
\* whose configured id is "local", payloads that name the seeded local tool
\* or repeat a name, and two backends advertising the same name.  The run
\* starts after the first sync (s1 listed <<"a">>, s2 <<"b">>, both cached).
NamedBackends == Servers \cup {"local"}

NamedPayloads == {<<"a">>, <<"a", "a">>, <<"lt">>}

InitNames ==
    /\ now = 0 /\ ticks = 0 /\ ops = 0
    /\ settings = SyncAllSettings
    /\ failure_tracker = [s \in {} |-> NewCircuit(1)]
    /\ metrics = InitMetrics
    /\ connected \in {[s \in NamedBackends |-> TRUE], [s \in NamedBackends |-> s # "s2"]}
    /\ tools = SyncedRegistry
    /\ calls = [c \in Calls |-> IdleCall]
    /\ streak = [s \in NamedBackends |-> NoStreak]
    /\ tool_cache = SyncedCache(settings)
    /\ syncs = [y \in Syncs |-> IdleSync]
    /\ lastSync = [s \in NamedBackends |-> NoSync]
    /\ task = "none" /\ health = InitHealth /\ sender = "none"
    /\ cmd_queue = <<>> /\ pending_requests = [x \in {} |-> 0]
    /\ reqs = [r \in Reqs |-> IdleReq] /\ wire = {}
    /\ answers = [r \in Reqs |-> 0] /\ frames = 0 /\ sweep_at = NoInstant
    /\ sync_all = IdleSyncAll
    /\ backoff = IdleBackoff(0)
    /\ regcall = IdleRegCall
    /\ conn = IdleConn
    /\ mgr = IdleMgr
    /\ locks = IdleLocks
    /\ validate = IdleValidate
    /\ heartbeat_at = NoInstant
    /\ listeners = IdleListeners

NextNames ==
    \/ (\E y \in Syncs, sid \in NamedBackends : SyncStart(y, sid)) /\ UNCHANGED sync_all
    \/ (\E y \in Syncs : SyncSkipped(y)) /\ UNCHANGED sync_all
    \/ (\E y \in Syncs : SyncNotConnected(y)) /\ UNCHANGED sync_all
    \/ (\E y \in Syncs : SyncFetch(y)) /\ UNCHANGED sync_all
    \/ (\E y \in Syncs : SyncListFailed(y)) /\ UNCHANGED sync_all
    \/ (\E y \in Syncs : SyncListError(y)) /\ UNCHANGED sync_all
    \/ (\E y \in Syncs : SyncListMalformed(y)) /\ UNCHANGED sync_all
    \/ (\E y \in Syncs, payload \in NamedPayloads : SyncCacheHit(y, payload))
          /\ UNCHANGED sync_all
    \/ (\E y \in Syncs, payload \in NamedPayloads : SyncCacheMiss(y, payload))
          /\ UNCHANGED sync_all
    \/ (\E y \in Syncs : SyncRegister(y)) /\ UNCHANGED sync_all
    \/ (\E y \in Syncs : SyncFinish(y)) /\ UNCHANGED sync_all
    \/ (\E y \in Syncs : SyncReturn(y)) /\ UNCHANGED sync_all
    \/ \E d \in SyncTickSteps : Tick(d)

SpecNames == InitNames /\ [][NextNames]_vars

\* ------------------------------------------------------------------ C1
\* the pre-flight step of call c: is_open(now) on the backend's CircuitState
Preflight(c) == calls[c].pc = "idle" /\ calls'[c].pc \in {"blocked", "attempt"}

\* C1: is_open(now) returns true exactly when open_until is set and
\* now < open_until, and then changes nothing; called with now >= open_until
\* it clears open_until and resets failure_count to 0; with no open window
\* it opens or closes nothing, so a window is closed once.
C1_IsOpenContract ==
    [][\A c \in Calls :
         (Preflight(c) /\ calls'[c].server \in DOMAIN failure_tracker) =>
            LET st == failure_tracker[calls'[c].server]
                post == failure_tracker'[calls'[c].server]
            IN /\ (calls'[c].pc = "blocked") <=>
                      (st.open_until # NoInstant /\ now < st.open_until)
               /\ (st.open_until # NoInstant /\ now < st.open_until) => post = st
               /\ (st.open_until # NoInstant /\ now >= st.open_until) =>
                      (post.open_until = NoInstant /\ post.failure_count = 0)
               /\ st.open_until = NoInstant => post.open_until = NoInstant
      ]_vars

\* A call passed its pre-flight check on a backend whose window is_open has
\* closed: the count is 0 while the last failure is still remembered.
C1_Witness ==
    \E c \in Calls :
        /\ calls[c].pc = "attempt" /\ calls[c].attempt = 0
        /\ calls[c].server \in DOMAIN failure_tracker
        /\ LET st == failure_tracker[calls[c].server]
           IN st.open_until = NoInstant /\ st.failure_count = 0
              /\ st.last_failure # NoInstant

\* ------------------------------------------------------------------ C2
\* C2: of failures registered in a row on one backend (no success between
\* them, each within the reset window of the one before), the first T-1
\* return nothing and the T-th returns a duration d, leaving
\* open_until = now + d and is_open(t) true for every t in [now, now + d).
C2_ThresholdOpens ==
    [][\A s \in Servers :
         (streak'[s] # streak[s] /\ streak'[s].n >= 1) =>
            LET h == streak'[s]
                post == failure_tracker'[s]
            IN /\ h.n < Threshold(settings) => h.ret = NoInstant
               /\ h.n = Threshold(settings) =>
                     /\ h.ret # NoInstant
                     /\ post.open_until = now + h.ret
                     /\ \A t \in now..(now + h.ret - 1) : IsOpenRet(post, t)
      ]_vars

\* ------------------------------------------------------------------ C3
\* C3: a forwarded call that finds the circuit open at its pre-flight check
\* sends no RPC, registers no failure (the CircuitState is left as it was),
\* adds exactly 1 to circuit_open_skips and returns the circuit-open error.
C3_OpenCircuitFastFail ==
    [][\A c \in Calls :
         /\ (Preflight(c) /\ calls'[c].pc = "blocked") =>
                /\ failure_tracker' = failure_tracker
                /\ streak' = streak
                /\ metrics' = metrics
                /\ calls'[c].rpcs = 0
         /\ (calls[c].pc = "blocked" /\ calls'[c] # calls[c]) =>
                /\ calls'[c].pc = "done" /\ calls'[c].ret = "circuit_open"
                /\ calls'[c].rpcs = 0
                /\ failure_tracker' = failure_tracker
                /\ streak' = streak
                /\ metrics' = [metrics EXCEPT !.circuit_open_skips = @ + 1]
      ]_vars

\* A call has returned the circuit-open error.
C3_Witness ==
    \E c \in Calls :
        /\ calls[c].pc = "done" /\ calls[c].ret = "circuit_open"
        /\ metrics.circuit_open_skips >= 1

\* ------------------------------------------------------------------ C4
\* C4: while a backend's open window is running (open_until set and
\* now < open_until), no step clears open_until or moves it earlier.
C4_OpenUntilMonotone ==
    [][\A s \in DOMAIN failure_tracker :
         (failure_tracker[s].open_until # NoInstant
            /\ now < failure_tracker[s].open_until) =>
               /\ failure_tracker'[s].open_until # NoInstant
               /\ failure_tracker'[s].open_until >= failure_tracker[s].open_until
      ]_vars

\* ---------------------------------------------------------------------
\* Sync y returns Ok in this step.
SyncSucceeds(y) ==
    syncs[y].pc # "done" /\ syncs'[y].pc = "done" /\ syncs'[y].ret = "ok"

\* The sync that returns had a successful predecessor on the same backend
\* with the same tools array, started less than the TTL before it, and no
\* other sync of that backend ran beside it.
RepeatsWithinTtl(y) ==
    /\ syncs'[y].alone
    /\ syncs'[y].prev.valid
    /\ syncs'[y].prev.payload = syncs'[y].payload
    /\ syncs'[y].t0 - syncs'[y].prev.at < settings.tool_cache_ttl_seconds * 1000

\* C9: with a cache TTL above zero, a successful sync that follows a
\* successful sync of the same backend with an identical tools array, within
\* the TTL, removes nothing, registers nothing, emits no change event and
\* returns the tool count its predecessor returned.
C9_CachedSyncIsSilent ==
    [][\A y \in Syncs :
          (SyncSucceeds(y) /\ settings.tool_cache_ttl_seconds > 0
                           /\ RepeatsWithinTtl(y))
          => /\ syncs'[y].removes = 0
             /\ syncs'[y].registered_count = 0
             /\ syncs'[y].events = 0
             /\ syncs'[y].count = syncs'[y].prev.count
             /\ tools' = tools]_vars

\* a second sync has returned from the cache, after time has passed, the count
\* its predecessor registered
C9_Witness ==
    \E y \in Syncs :
        /\ syncs[y].pc = "done" /\ syncs[y].ret = "ok"
        /\ settings.tool_cache_ttl_seconds > 0
        /\ syncs[y].alone /\ syncs[y].prev.valid
        /\ syncs[y].prev.payload = syncs[y].payload
        /\ syncs[y].t0 > syncs[y].prev.at
        /\ syncs[y].t0 - syncs[y].prev.at < settings.tool_cache_ttl_seconds * 1000
        /\ syncs[y].count = 1 /\ syncs[y].events = 0

\* the tools of the array that parse
Parsed(payload) == {i \in 1..Len(payload) : Parses(payload[i])}

\* C10: with a cache TTL of zero, every successful sync removes the backend's
\* tools once and registers each parsed tool of the array, and never reads or
\* writes a cache entry, identical array or not.
C10_NoCacheAlwaysReplace ==
    [][\A y \in Syncs :
          (SyncSucceeds(y) /\ settings.tool_cache_ttl_seconds = 0)
          => /\ syncs'[y].removes = 1
             /\ syncs'[y].registered_count = Cardinality(Parsed(syncs'[y].payload))
             /\ syncs'[y].cache_reads = 0
             /\ syncs'[y].cache_writes = 0
             /\ tool_cache' = tool_cache
             /\ DOMAIN tool_cache = {}]_vars

\* a sync without cache has replaced the tools of a backend whose array is the
\* one the previous sync saw, at the same instant
C10_Witness ==
    \E y \in Syncs :
        /\ syncs[y].pc = "done" /\ syncs[y].ret = "ok"
        /\ settings.tool_cache_ttl_seconds = 0
        /\ syncs[y].alone /\ syncs[y].prev.valid
        /\ syncs[y].prev.payload = syncs[y].payload
        /\ syncs[y].t0 = syncs[y].prev.at
        /\ syncs[y].removes = 1 /\ syncs[y].registered_count = 1
        /\ syncs[y].events = 2

\* ------------------------------------------------------------------ C5
\* C5: the completion handle of a PendingRequest is used at most once; an
\* entry still in the pending map has not been completed; and once the
\* connection task has ended every PendingRequest made was completed, once.
C5_CompletedExactlyOnce ==
    /\ \A r \in Reqs : reqs[r].completions <= 1
    /\ \A id \in DOMAIN pending_requests :
          reqs[pending_requests[id].sender].completions = 0
    /\ task = "exited" =>
          \A r \in Reqs : reqs[r].stored => reqs[r].completions = 1

\* The task has ended; one request was answered, and answered again, and
\* was completed once; the other was completed by the sweep or by teardown.
C5_Witness ==
    /\ task = "exited"
    /\ \E r1, r2 \in Reqs :
          /\ r1 # r2
          /\ reqs[r1].value.kind = "response" /\ answers[r1] = 2
          /\ reqs[r1].completions = 1
          /\ reqs[r2].value.kind \in {"timeout", "closed"}
          /\ reqs[r2].completions = 1

\* ------------------------------------------------------------------ C6
\* C6: send_request never returns twice, and a send_request that is waiting
\* once the select loop has ended (its request pending, or still in the
\* command channel) returns; one called after the task ended returns at once.
C6_EveryRequestReturns ==
    /\ [](\A r \in Reqs : reqs[r].outcomes <= 1)
    /\ [](\A r \in Reqs : reqs[r].pc = "returned" => reqs[r].outcomes = 1)
    /\ \A r \in Reqs :
          (reqs[r].pc = "waiting" /\ task # "loop") ~> (reqs[r].pc = "returned")

\* The task has ended; the request that was pending returned the
\* connection-closed error and the one left in the command channel returned
\* the closed-channel error.
C6_Witness ==
    /\ task = "exited"
    /\ \E r1, r2 \in Reqs :
          /\ reqs[r1].pc = "returned" /\ reqs[r1].outcome = "closed"
          /\ reqs[r2].pc = "returned" /\ reqs[r2].outcome = "channel_closed"
          /\ ~reqs[r2].stored

\* ------------------------------------------------------------------ C7
\* C7: a pending request that the backend has not answered is never older
\* than its timeout plus one sweep interval.
C7_TimeoutWithinSweep ==
    \A id \in DOMAIN pending_requests :
        answers[id] = 0 =>
            now - pending_requests[id].sent_at
                <= pending_requests[id].timeout + SweepInterval

\* ------------------------------------------------------------------ C8
\* C8: the response a caller is given is the response to its own request.
C8_OwnResponseOnly ==
    \A r \in Reqs :
        /\ reqs[r].value.kind = "response" => reqs[r].value.of = r
        /\ reqs[r].outcome = "response" => reqs[r].value = [kind |-> "response", of |-> r]

\* Both requests were written to the socket, the first one first; the
\* response to the second arrived first and its caller has it, while the
\* first is still pending.
C8_Witness ==
    /\ wire = {1, 2}
    /\ 1 \in DOMAIN pending_requests /\ answers[1] = 0
    /\ reqs[2].pc = "returned" /\ reqs[2].outcome = "response"
    /\ reqs[2].value.of = 2

\* ----------------------------------------------------------------- C11
\* the circuit check of sync y finds the circuit open
SyncFindsOpen(y) == syncs[y].pc = "idle" /\ syncs'[y].pc = "skipped"

\* C11: a sync that finds the backend's circuit open returns Ok(0), sends no
\* RPC, adds exactly 1 to circuit_open_skips and leaves the registry, the
\* cache and the circuit state as they were.
C11_OpenCircuitSyncSkips ==
    [][\A y \in Syncs :
         /\ SyncFindsOpen(y) =>
                /\ failure_tracker' = failure_tracker
                /\ tools' = tools /\ tool_cache' = tool_cache
                /\ metrics' = metrics
                /\ syncs'[y].rpcs = 0
         /\ (syncs[y].pc = "skipped" /\ syncs'[y].pc # "skipped") =>
                /\ syncs'[y].pc = "done" /\ syncs'[y].ret = "skipped"
                /\ syncs'[y].count = 0 /\ syncs'[y].rpcs = 0
                /\ syncs'[y].removes = 0 /\ syncs'[y].registered_count = 0
                /\ failure_tracker' = failure_tracker
                /\ tools' = tools /\ tool_cache' = tool_cache
                /\ metrics' = [metrics EXCEPT !.circuit_open_skips = @ + 1]
      ]_vars

\* A sync of a backend whose circuit is open has returned Ok(0); the circuit
\* is still open.
C11_Witness ==
    \E y \in Syncs :
        /\ syncs[y].pc = "done" /\ syncs[y].ret = "skipped"
        /\ metrics.circuit_open_skips = 1
        /\ syncs[y].server \in DOMAIN failure_tracker
        /\ IsOpenNow(failure_tracker[syncs[y].server], now)

\* ----------------------------------------------------------------- C12
\* the tools/list exchange of sync y fails in this step
ListFails(y) ==
    /\ syncs[y].pc = "listing" /\ syncs'[y].pc = "done"
    /\ syncs'[y].ret \in {"rpc_error", "transport_error"}

\* C12: a sync whose tools/list exchange fails, by a JSON-RPC error or at
\* transport level, registers exactly one circuit failure for its backend.
C12_ListFailureRegistered ==
    [][\A y \in Syncs :
         ListFails(y) =>
            \E j \in Jitters(settings) :
                failure_tracker' =
                    RecordFailureTracker(failure_tracker, syncs[y].server, now, j)
      ]_vars

\* ----------------------------------------------------------------- C13
\* the backends whose sync takes this step
Acting == {syncs'[y].server : y \in {z \in Syncs : syncs'[z].pc # syncs[z].pc
                                                     /\ syncs'[z].pc # "idle"}}

\* what the manager holds for backend s: its circuit state and cache entry
Held(ft, cache, s) ==
    <<IF s \in DOMAIN ft THEN <<ft[s]>> ELSE <<>>,
      IF s \in DOMAIN cache THEN <<cache[s]>> ELSE <<>> >>

\* a step of a running sync_all_servers call
RoundStep ==
    \/ \E sid \in Servers : SyncAllTask(sid)
    \/ SyncStep /\ UNCHANGED sync_all
    \/ SyncAllJoin

\* some backend's sync has ended without success
SomeFailed == \E y \in Syncs : syncs[y].pc = "done" /\ syncs[y].ret # "ok"

FailedSyncs == {y \in Syncs : syncs[y].pc = "done" /\ ~IsOk(syncs[y].ret)}
SkippedSyncs == {y \in Syncs : syncs[y].pc = "done" /\ syncs[y].ret = "skipped"}

\* C14: when sync_all_servers has counted its results, federation_errors has
\* grown over the call by exactly the number of backends whose sync failed,
\* and circuit_open_skips by exactly the number of backends skipped.
C14_ErrorsCountedOnce ==
    [][(sync_all.pc = "running" /\ sync_all'.pc = "done") =>
          /\ metrics'.federation_errors - sync_all.errors0 = Cardinality(FailedSyncs)
          /\ metrics'.circuit_open_skips - sync_all.skips0 = Cardinality(SkippedSyncs)
      ]_vars

\* ----------------------------------------------------------------- C15
\* C15: one forward_to_downstream call issues at most max_retries + 1
\* tools/call requests.
C15_AtMostRetriesPlusOne ==
    \A c \in Calls : calls[c].rpcs <= settings.max_retries + 1

\* ----------------------------------------------------------------- C16
\* call c gets a response without error on a retry
SucceedsOnRetry(c) ==
    /\ calls[c].pc = "calling" /\ calls[c].attempt >= 1
    /\ calls'[c].pc = "done" /\ calls'[c].ret = "ok"

\* C16: when a retry of a forward_to_downstream call, after attempts that
\* failed without opening the circuit, gets a response without error, the
\* call returns the result, the backend's failure_count, last_failure and
\* open_until are reset, and tool_calls_forwarded grows by exactly one; no
\* other step of a call changes tool_calls_forwarded.
C16_RetrySuccessResets ==
    [][/\ \A c \in Calls :
             SucceedsOnRetry(c) =>
                /\ calls[c].server \in DOMAIN failure_tracker'
                /\ failure_tracker'[calls[c].server].failure_count = 0
                /\ failure_tracker'[calls[c].server].last_failure = NoInstant
                /\ failure_tracker'[calls[c].server].open_until = NoInstant
                /\ metrics'.tool_calls_forwarded = metrics.tool_calls_forwarded + 1
                /\ calls'[c].rpcs = calls[c].attempt + 1
       /\ metrics'.tool_calls_forwarded # metrics.tool_calls_forwarded =>
             \E c \in Calls : calls[c].pc = "calling" /\ calls'[c].ret = "ok"
      ]_vars

C16_Witness ==
    \E c \in Calls :
       /\ calls[c].pc = "done" /\ calls[c].ret = "ok" /\ calls[c].attempt >= 1
       /\ calls[c].rpcs = 2
       /\ failure_tracker[calls[c].server].failure_count = 0
       /\ metrics.tool_calls_forwarded = 1

\* ----------------------------------------------------------------- C17
\* the attempt of call c fails, and the failure reaches the threshold
FailureOpens(c) ==
    /\ calls[c].pc = "calling"
    /\ calls'[c].pc # "calling" /\ calls'[c].ret # "ok"
    /\ LET sid == calls[c].server
           st == IF sid \in DOMAIN failure_tracker THEN failure_tracker[sid]
                 ELSE NewCircuit(settings.circuit_breaker_reset_seconds)
       IN FailureCountAfter(st, now) >= Threshold(settings)

\* C17: when a failure of an attempt of forward_to_downstream opens the
\* circuit, the call returns an error at once: it neither sleeps nor sends
\* another request, even with retries left.
C17_OpeningFailureReturns ==
    [][\A c \in Calls :
          /\ FailureOpens(c) =>
                /\ failure_tracker'[calls[c].server].open_until > now
                /\ calls'[c].pc = "done" /\ calls'[c].ret = "circuit_opened"
                /\ calls'[c].wake = NoInstant
                /\ calls'[c].rpcs = calls[c].rpcs
          /\ (calls[c].pc = "done" /\ calls[c].ret = "circuit_opened") =>
                calls'[c] \in {calls[c], IdleCall}
      ]_vars

C17_Witness ==
    \E c \in Calls :
       /\ calls[c].pc = "done" /\ calls[c].ret = "circuit_opened"
       /\ calls[c].attempt < MaxAttempts
       /\ calls[c].rpcs = 1
       /\ failure_tracker[calls[c].server].open_until # NoInstant

\* ----------------------------------------------------------------- C18
\* call c is a route_tool_call in Plan mode taking its step
PlanStep(c) == calls[c].pc = "idle" /\ calls'[c].pc = "done"

\* C18: route_tool_call in Plan mode for a tool of the registry returns the
\* plan, naming the tool's server, whatever the state of the backend's
\* connection and circuit; it sends no request and changes neither the
\* circuit states, the metrics, the registry, the cache nor the connections.
C18_PlanHasNoEffect ==
    [][\A c \in Calls :
          PlanStep(c) =>
             /\ calls'[c].tool \in DOMAIN tools =>
                   /\ calls'[c].ret = "plan"
                   /\ calls'[c].server = TargetServer(tools[calls'[c].tool].source)
             /\ calls'[c].rpcs = 0
             /\ UNCHANGED <<failure_tracker, metrics, connected, tools, streak,
                             tool_cache, syncs, sync_all, clientVars>>
      ]_vars

C18_Witness ==
    \E c \in Calls :
       /\ calls[c].pc = "done" /\ calls[c].ret = "plan"
       /\ calls[c].server \in Servers
       /\ ~connected[calls[c].server]
       /\ calls[c].server \in DOMAIN failure_tracker
       /\ IsOpenNow(failure_tracker[calls[c].server], now)

\* ----------------------------------------------------------------- C19
\* C19: the duration before jitter does not decrease from one attempt to the
\* next, stays the same once the attempt is past 16 or the maximum is
\* reached, and never exceeds the effective maximum; the duration returned
\* is at least 1 ms; every value stays within the integer's range.
C19_BackoffMonotoneBounded ==
    backoff.pc = "done" =>
       /\ backoff.pre <= BackoffCap(settings)
       /\ backoff.total >= 1
       /\ backoff.pre \in 0..WordMax /\ backoff.total \in 0..WordMax
       /\ Min(backoff.attempt, 16) < WordBits
       /\ backoff.prev # NoInstant =>
             /\ backoff.prev <= backoff.pre
             /\ (backoff.attempt - 1 >= 16 \/ backoff.prev = BackoffCap(settings)) =>
                   backoff.pre = backoff.prev

C19_Witness ==
    /\ backoff.pc = "done" /\ backoff.attempt = 17
    /\ backoff.prev # NoInstant /\ backoff.prev = backoff.pre
    /\ backoff.pre < BackoffCap(settings)
    /\ backoff.pre = BackoffBase(settings) * Pow2(16)

\* ----------------------------------------------------------------- C20
\* min(i * k, m), without forming a product above m
MinProd(i, k, m) == IF i > m \div k THEN m ELSE i * k

\* the duration is within [lo, lo + spread], each floored at 1 ms, where
\* lo = min(initial * 2^min(attempt,16), max) and spread = min(initial, max)
WithinBackoffRange(initial, max) ==
    LET lo == MinProd(initial, Pow2(Min(backoff.attempt, 16)), max)
    IN /\ Max(lo, 1) <= backoff.total
       /\ backoff.total <= Max(lo + Min(initial, max), 1)

\* C20 as stated: the range is that of the configured initial and max.
C20_ConfiguredRange ==
    backoff.pc = "done" =>
       WithinBackoffRange(settings.backoff_initial_ms, settings.backoff_max_ms)

\* C20: the range is that of the effective values, initial raised to at
\* least 10 ms and max raised to at least that initial.
C20_EffectiveRange ==
    backoff.pc = "done" =>
       WithinBackoffRange(Max(settings.backoff_initial_ms, 10),
                          Max(settings.backoff_max_ms,
                              Max(settings.backoff_initial_ms, 10)))

C20_Witness ==
    /\ backoff.pc = "done"
    /\ settings.backoff_initial_ms < 10
    /\ settings.backoff_max_ms < settings.backoff_initial_ms
    /\ backoff.total = 20

\* ----------------------------------------------------------------- C21
\* C21: a step of remove_tools_from_source(id) takes from the registry only
\* entries whose source is the backend id, and leaves every entry of another
\* source present and unchanged, also with register_tool calls running
\* beside it.
C21_RemovesOnlyOwnSource ==
    [][regcall.pc = "removing" =>
          \A n \in DOMAIN tools :
             ~FromSource(tools[n], regcall.source) =>
                (n \in DOMAIN tools' /\ (regcall'.last = regcall.last => tools'[n] = tools[n]))
      ]_vars

\* ----------------------------------------------------------------- C22
\* the two most recent registrations had the same name, description, input
\* schema and output schema
SameFields ==
    /\ regcall.prev.fields # <<>>
    /\ regcall.last.fields = regcall.prev.fields

\* the registry computed the hash of registration r itself
Computed(r) == r.via = "register_tool" \/ r.supplied = NoHash

HealthEdges ==
    { <<"Disconnected", "Connecting">>, <<"Connecting", "Connected">>,
      <<"Connected", "Error">>, <<"Error", "Disconnected">>,
      <<"Connected", "Disconnected">> }

\* C23: a client starts Disconnected with message_count = 0 and
\* error_count = 0; its health state changes only along Disconnected ->
\* Connecting -> Connected -> {Error -> Disconnected | Disconnected}; and
\* after a handshake that failed the state does not stay Connecting forever.
C23_HealthLifecycle ==
    /\ health.state = "Disconnected"
    /\ health.message_count = 0 /\ health.error_count = 0
    /\ [][health'.state # health.state =>
             <<health.state, health'.state>> \in HealthEdges]_vars
    /\ (task = "exited" /\ health.state = "Connecting")
           ~> (health.state # "Connecting")

\* ----------------------------------------------------------------- C24
\* C24: connect called on a client whose state is Connected returns success
\* at once: it spawns no task, makes no new command channel and leaves
\* health, the Sender and the queued commands as they are.
C24_ConnectIdempotent ==
    [][(ops' = ops + 1 /\ health.state = "Connected") =>
          /\ conn'.pc = "returned" /\ conn'.ret = "ok"
          /\ conn'.spawned = conn.spawned
          /\ conn'.channels = conn.channels
          /\ health' = health
          /\ sender' = sender /\ cmd_queue' = cmd_queue /\ task' = task
      ]_vars

\* A second connect on the connected client has returned Ok: one task was
\* spawned by two calls.
C24_Witness ==
    /\ ops = 2 /\ conn.spawned = 1
    /\ conn.pc = "returned" /\ conn.ret = "ok"
    /\ health.state = "Connected" /\ task = "loop"

\* ----------------------------------------------------------------- C25
\* disconnect returns in this step
DisconnectReturns == sender = "disconnecting" /\ sender' = "none"

\* C25: disconnect returns only after the client's background connection
\* task has terminated; when it returns the state is Disconnected, the
\* command channel is dropped, and every request that was pending has been
\* completed (no PendingRequest is left, every stored one had its Sender
\* used).
C25_DisconnectJoins ==
    [][DisconnectReturns =>
          /\ task' = "exited"
          /\ conn'.old_handshake = 0 /\ conn'.old_loop = 0
          /\ health'.state = "Disconnected"
          /\ cmd_queue' = <<>>
          /\ DOMAIN pending_requests' = {}
          /\ \A r \in Reqs : reqs'[r].stored => reqs'[r].completions >= 1
      ]_vars

\* ----------------------------------------------------------------- C28
\* send_request r has put its command into the channel
Submitted(r) == reqs[r].handle # "none"

\* C28: within one connection the request frames are written to the socket
\* in the order in which send_request submitted them: a step that writes
\* request id writes nothing else, and every request submitted before it
\* (callers submit in the order of their numbers) was written before.
C28_WrittenInSubmissionOrder ==
    [][wire' # wire =>
          \E id \in Reqs :
             /\ wire' = wire \cup {id}
             /\ Submitted(id)
             /\ \A r \in Reqs : (r < id /\ Submitted(r)) => r \in wire
      ]_vars

\* Both requests were written while both callers waited, and a frame that
\* is no first response came in on the way.
C28_Witness ==
    /\ wire = {1, 2}
    /\ reqs[1].pc = "waiting" /\ reqs[2].pc = "waiting"
    /\ frames = 1

\* ----------------------------------------------------------------- C29
\* the loop reads, in this step, a response whose id has no pending request
UnmatchedResponse ==
    \E id \in Reqs :
        /\ answers'[id] = answers[id] + 1
        /\ MatchKey(id, pending_requests) \notin DOMAIN pending_requests

\* the loop reads, in this step, a frame that is no response
OtherFrame == frames' = frames + 1 /\ answers' = answers

\* no `pending.sender.send` in this step
CompletesNothing ==
    /\ pending_requests' = pending_requests
    /\ \A r \in Reqs : reqs'[r].completions = reqs[r].completions

\* C29: an inbound text frame that is no parseable JSON-RPC response, or
\* whose correlation id has no pending request, adds 1 to error_count,
\* completes no pending request and leaves the loop running in state
\* Connected.  (A frame that is no response is a text frame that does not
\* parse, counted, or a binary, pong or raw frame, not counted.)
C29_BadFrameCounted ==
    [][/\ UnmatchedResponse =>
             /\ health'.error_count = health.error_count + 1
             /\ CompletesNothing
             /\ task' = "loop" /\ health'.state = "Connected"
       /\ OtherFrame =>
             /\ health'.error_count \in {health.error_count, health.error_count + 1}
             /\ CompletesNothing
             /\ task' = "loop" /\ health'.state = "Connected"
      ]_vars

\* ----------------------------------------------------------------- C26
\* C26: once shutdown has returned, the periodic sync task is cancelled,
\* every client is disconnected, the client map, the circuit-state map and
\* the tool cache are empty and active_connections is 0; the two maps stay
\* empty, so no sync writes to them afterwards.
C26_ShutdownQuiesces ==
    mgr.pc = "returned" =>
        /\ mgr.sync_handle = "cancelled"
        /\ \A s \in Servers : ~connected[s]
        /\ mgr.clients = {}
        /\ DOMAIN failure_tracker = {}
        /\ DOMAIN tool_cache = {}
        /\ mgr.active_connections = 0

\* ----------------------------------------------------------------- C27
\* connect_all has counted its results and is about to return
ConnectAllCounted == mgr.pc = "done"

\* what connect_all leaves in the metrics: active_connections is the number
\* of backends whose connect succeeded, total_servers the number of clients;
\* with no client it returns an error
CountsAfterConnectAll ==
    /\ mgr.active_connections =
           Cardinality({s \in mgr.clients : mgr.client[s].connect = "ok"})
    /\ mgr.total_servers = Cardinality(mgr.clients)
    /\ mgr.clients = {} => mgr.ret = "error"

\* C27 as stated: connect_all returns success iff at least one backend
\* reached Connected, with the metrics as above.
C27_SuccessIffReachedConnected ==
    ConnectAllCounted =>
        /\ (mgr.ret = "ok") <=> (\E s \in mgr.clients : mgr.client[s].reached)
        /\ CountsAfterConnectAll

\* C27, amended: connect_all returns success iff the connect call of at
\* least one backend returned success, with the metrics as above; a backend
\* that reaches Connected after its connect call timed out is not counted.
C27_SuccessIffConnectSucceeded ==
    ConnectAllCounted =>
        /\ (mgr.ret = "ok") <=> (\E s \in mgr.clients : mgr.client[s].connect = "ok")
        /\ CountsAfterConnectAll
        /\ \A s \in mgr.clients :
              mgr.client[s].connect = "timeout" \/ mgr.client[s].reached

\* connect_all returns success with one of two backends counted: the
\* other's handshake ended after its connect call had timed out.
C27_Witness ==
    /\ ConnectAllCounted /\ mgr.ret = "ok"
    /\ mgr.active_connections = 1 /\ mgr.total_servers = 2
    /\ mgr.client["s1"].connect = "ok"
    /\ mgr.client["s2"].connect = "timeout" /\ mgr.client["s2"].state = "Connected"

\* ----------------------------------------------------------------- C30
\* C30: operations on different backends never block each other: no
\* operation waits for a lock that an operation on another backend holds
\* while suspended at an await, and while every backend has answered some
\* operation that has started and not finished can take a step.
C30_NoCrossBackendBlocking ==
    /\ \A a \in LockOps, b \in LockOps :
          ~ /\ a # b
            /\ BlockedOnShard(b)
            /\ locks.cache[locks.shard[b]] = a
            /\ locks.op[a].on = 0
    /\ (\E o \in LockOps : locks.op[o].pc \notin {"idle", "done"}) => ENABLED LockStep

\* ----------------------------------------------------------------- C31
\* the validate_tool_arguments call of v returns in this step
ValidateReturns(v) ==
    /\ ValidationOf(validate, v).pc # "done"
    /\ ValidationOf(validate', v).pc = "done"

\* the call of v is for a registered tool whose input schema requires f
RequiresField(v, f) ==
    /\ ValidationOf(validate', v).name \in DOMAIN tools
    /\ f \in tools[ValidationOf(validate', v).name].input_schema.required

\* the arguments of v hold a value of the type the schema gives f
CorrectlyTyped(v, f) ==
    /\ f \in DOMAIN ValidationOf(validate', v).args
    /\ ValidationOf(validate', v).args[f]
         = tools[ValidationOf(validate', v).name].input_schema.properties[f]

\* what C31 says of a returning call, for the tools in Registered
ValidationContract(v, Registered) ==
    LET ret == ValidationOf(validate', v).ret
        name == ValidationOf(validate', v).name
        counter == validate.schema_validation_errors
        counter2 == validate'.schema_validation_errors
    IN  /\ name \notin DOMAIN tools => ~ret.ok /\ ret.errors # {}
        /\ \A f \in Fields :
             (name \in Registered /\ RequiresField(v, f)) =>
               /\ f \notin DOMAIN ValidationOf(validate', v).args =>
                    ~ret.ok /\ ret.errors # {} /\ counter2 = counter + 1
               /\ CorrectlyTyped(v, f) => ret.ok /\ counter2 = counter

\* C31 as stated: for every registered tool whose input schema requires a
\* field, arguments lacking the field return a non-empty error list and add
\* 1 to schema_validation_errors, arguments holding a correctly typed value
\* return success with the counter unchanged, and an unknown tool name
\* returns an error list.
C31_ValidationContract ==
    [][\A v \in Validators :
          ValidateReturns(v) => ValidationContract(v, DOMAIN tools)]_vars

\* the registered tools whose input schema JSONSchema::compile accepts
Compiling == {n \in DOMAIN tools : tools[n].input_schema.compiles}

\* C31, amended: the contract holds for every registered tool whose input
\* schema compiles; a call for a tool whose schema does not compile returns
\* a non-empty error list and leaves schema_validation_errors unchanged,
\* as does a call for an unknown tool.
C31_ValidationContractCompiled ==
    [][\A v \in Validators :
          ValidateReturns(v) =>
            /\ ValidationContract(v, Compiling)
            /\ ValidationOf(validate', v).name \notin Compiling =>
                 /\ ~ValidationOf(validate', v).ret.ok
                 /\ ValidationOf(validate', v).ret.errors # {}
                 /\ validate'.schema_validation_errors
                      = validate.schema_validation_errors]_vars

\* One call was rejected for the missing required field and counted, the
\* other was accepted with the field correctly typed.
C31_Witness ==
    \E v, w \in Validators :
        /\ ValidationOf(validate, v).pc = "done" /\ ValidationOf(validate, w).pc = "done"
        /\ ValidationOf(validate, v).name \in Compiling
        /\ ValidationOf(validate, w).name \in Compiling
        /\ "query" \in tools[ValidationOf(validate, v).name].input_schema.required
        /\ "query" \notin DOMAIN ValidationOf(validate, v).args
        /\ ~ValidationOf(validate, v).ret.ok
        /\ "query" \in DOMAIN ValidationOf(validate, w).args
        /\ ValidationOf(validate, w).ret.ok
        /\ validate.schema_validation_errors = 1

\* ----------------------------------------------------------------- C32
\* route_tool_call is entered by c in this step
Routed(c) == calls[c].pc = "idle" /\ calls'[c].pc # "idle"

\* a tools/call RPC of c is written in this step
RpcSent(c) == calls'[c].rpcs > calls[c].rpcs

\* the name has no registry entry, or its backend has no client
NotRoutable(name) ==
    \/ name \notin DOMAIN tools
    \/ /\ tools[name].source.kind = "Federated"
       /\ tools[name].source.server_id \notin DOMAIN connected

\* C32: in Execute mode a tools/call RPC goes only to the client of the
\* backend recorded as the source of the looked-up tool; a Local tool never
\* reaches a downstream client; a name absent from the registry, or whose
\* backend has no client, returns a not-found error with no RPC and no
\* change of circuit state.
C32_RoutedToOwnBackend ==
    [][\A c \in Calls :
         /\ RpcSent(c) =>
              /\ calls'[c].tool \in DOMAIN tools
              /\ tools[calls'[c].tool].source = Federated(calls'[c].server)
              /\ calls'[c].server \in DOMAIN connected
              /\ \A c2 \in Calls \ {c} : calls'[c2].rpcs = calls[c2].rpcs
         /\ Routed(c) =>
              /\ (calls'[c].tool \in DOMAIN tools
                    /\ tools[calls'[c].tool].source = Local) =>
                   /\ calls'[c].pc = "done" /\ calls'[c].ret = "local"
                   /\ calls'[c].rpcs = 0
                   /\ failure_tracker' = failure_tracker
              /\ NotRoutable(calls'[c].tool) =>
                   /\ calls'[c].pc = "done"
                   /\ calls'[c].ret \in {"tool_not_found", "server_not_found"}
                   /\ calls'[c].rpcs = 0
                   /\ failure_tracker' = failure_tracker
                   /\ metrics' = metrics]_vars

\* A federated call has sent its RPC to s1 while a call of the local tool
\* has returned; before that the other kinds of name were refused.
C32_Witness ==
    /\ calls[1].pc = "calling" /\ calls[1].tool = "a" /\ calls[1].server = "s1"
    /\ calls[2].pc = "done" /\ calls[2].ret \in {"server_not_found", "tool_not_found"}
    /\ "gone" \in DOMAIN failure_tracker

\* ----------------------------------------------------------------- C33
\* the heartbeat interval ticks in this step
HeartbeatTicks == heartbeat_at' # heartbeat_at

\* C33: while the connection is Connected, every heartbeat tick writes a
\* ping frame to the socket and sets last_heartbeat to the time of that
\* send.
C33_HeartbeatPings ==
    [][(HeartbeatTicks /\ health.state = "Connected") =>
          /\ wire' # wire
          /\ health'.last_heartbeat = now]_vars

\* what the heartbeat tick does: last_heartbeat is stamped, the socket is
\* left alone
C33_HeartbeatStampsOnly ==
    [][(HeartbeatTicks /\ health.state = "Connected") =>
          /\ wire' = wire
          /\ health'.last_heartbeat = now]_vars

\* ----------------------------------------------------------------- C34
\* the attempt of c that starts in this step finds the client not connected
FindsNotConnected(c) ==
    /\ calls[c].pc = "attempt" /\ calls'[c] # calls[c]
    /\ ~connected[calls[c].server]

\* failures counted for the backend by record_failure_shared
ServerFailures(m, sid) ==
    IF sid \in DOMAIN m.server_failures THEN m.server_failures[sid] ELSE 0

\* C34: an attempt that finds the backend's client not Connected registers
\* exactly one circuit failure for that backend, sends no RPC, sleeps no
\* backoff, makes no further attempt and returns the not-connected error,
\* whatever the number of retries left.
C34_NotConnectedFailsOnce ==
    [][\A c \in Calls :
         /\ FindsNotConnected(c) =>
              LET sid == calls[c].server
              IN  /\ calls'[c].pc = "done" /\ calls'[c].ret = "not_connected"
                  /\ calls'[c].rpcs = calls[c].rpcs
                  /\ calls'[c].wake = NoInstant
                  /\ calls'[c].attempt = calls[c].attempt
                  /\ ServerFailures(metrics', sid) = ServerFailures(metrics, sid) + 1
                  /\ metrics'.federation_errors = metrics.federation_errors + 1
                  /\ streak'[sid].at = now
                  /\ sid \in DOMAIN failure_tracker'
                  /\ failure_tracker'[sid].last_failure = now
                  /\ \A s \in Servers \ {sid} :
                       /\ ServerFailures(metrics', s) = ServerFailures(metrics, s)
                       /\ streak'[s] = streak[s]
         /\ (calls[c].pc = "done" /\ calls[c].ret = "not_connected") =>
              /\ calls'[c].rpcs <= calls[c].rpcs
              /\ calls'[c].pc \in {"done", "idle"}]_vars

\* A retry found the client gone: the first attempt was sent and failed,
\* the connection was lost during the backoff, the call returned the
\* not-connected error without a second RPC.
C34_Witness ==
    \E c \in Calls :
        /\ calls[c].pc = "done" /\ calls[c].ret = "not_connected"
        /\ calls[c].attempt = 1 /\ calls[c].rpcs = 1

\* ----------------------------------------------------------------- C35
\* the backend's circuit is open: open_until is set and lies ahead
CircuitOpen(sid) ==
    /\ sid \in DOMAIN failure_tracker
    /\ failure_tracker[sid].open_until # NoInstant
    /\ now < failure_tracker[sid].open_until

\* C35: in every interleaving of concurrent calls on one backend no
\* tools/call RPC is sent to the backend while its circuit is open; a call
\* that passed its pre-flight check before the circuit opened sends no
\* first attempt and no retry into the open window.
C35_NoRpcWhileOpen ==
    [][\A c \in Calls :
         calls'[c].rpcs > calls[c].rpcs => ~CircuitOpen(calls[c].server)]_vars

\* ----------------------------------------------------------------- C36
\* connection tasks of the client that have not returned
AliveTasks ==
    conn.old_handshake + conn.old_loop
      + (IF task \in {"handshake", "loop", "closing", "failing"} THEN 1 ELSE 0)

\* a task whose handle a later connect() replaced takes a step
LeftoverStep ==
    \/ conn'.old_handshake < conn.old_handshake
    \/ conn'.old_loop < conn.old_loop

\* C36: a client has at most one background connection task alive at any
\* time, and a task left over from a connect() that timed out never sets
\* the state to Connected or Disconnected while the task of a later
\* connect() owns the connection.
C36_SingleConnectionTask ==
    /\ [](AliveTasks <= 1)
    /\ [][(LeftoverStep /\ task \in {"handshake", "loop", "closing"}) =>
             health'.state = health.state]_vars

\* ----------------------------------------------------------------- C37
\* C37: syncing a federated backend never deletes a Local-sourced registry
\* entry, never replaces it and never changes its source, whatever the
\* backend's configured id (the string "local" included) and whatever the
\* names it advertises (a local tool's name included).
C37_LocalEntriesKept ==
    [][\A n \in DOMAIN tools :
         tools[n].source = Local =>
            n \in DOMAIN tools' /\ tools'[n].source = Local]_vars

\* ----------------------------------------------------------------- C38
\* the sync y returns success in this step while no other sync is running
ReturnsAlone(y) ==
    /\ syncs[y].pc # "done" /\ syncs'[y].pc = "done" /\ syncs'[y].ret = "ok"
    /\ \A y2 \in Syncs \ {y} : syncs[y2].pc \in {"idle", "done"}

\* the registry entries whose source is the backend
EntriesOf(reg, sid) == {n \in DOMAIN reg : reg[n].source = Federated(sid)}

\* C38: when a successful sync of a backend returns tool count n, on a
\* cache miss or a cache hit, with no other operation in progress, the
\* registry holds exactly n entries whose source is that backend; also when
\* the payload repeats a name and when another backend registered a tool of
\* the same name since the cached sync.
C38_CountMatchesRegistry ==
    [][\A y \in Syncs :
         ReturnsAlone(y) =>
            Cardinality(EntriesOf(tools', syncs'[y].server)) = syncs'[y].count]_vars

\* ------------------------------------------------------------------ C39
\* two finished syncs of one backend that overlapped in time and fetched
\* different tools arrays
ConcurrentPair(y1, y2) ==
    /\ y1 # y2
    /\ syncs[y1].pc = "done" /\ syncs[y1].ret = "ok"
    /\ syncs[y2].pc = "done" /\ syncs[y2].ret = "ok"
    /\ syncs[y1].server = syncs[y2].server
    /\ syncs[y1].payload # syncs[y2].payload
    /\ ~syncs[y1].alone /\ ~syncs[y2].alone

\* the names the register loop stores for a tools array
PayloadNames(payload) == {payload[i] : i \in Parsed(payload)}

\* the registry and the cache entry of the backend are those of sync y
StateOf(y) ==
    LET sid == syncs[y].server
    IN /\ EntriesOf(tools, sid) = PayloadNames(syncs[y].payload)
       /\ Caching(settings) =>
              /\ sid \in DOMAIN tool_cache
              /\ tool_cache[sid].spec_hash = SpecHash(syncs[y].payload)
              /\ tool_cache[sid].tool_count = Cardinality(Parsed(syncs[y].payload))

\* C39: after two concurrent syncs of the same backend that fetched different
\* payloads have both completed, the registry's entries of that backend are
\* exactly the tool set of one of the two payloads, and the backend's cache
\* entry holds the hash and the tool count of that same payload.
C39_ConcurrentSyncsLeaveOnePayload ==
    \A y1, y2 \in Syncs :
        ConcurrentPair(y1, y2) => StateOf(y1) \/ StateOf(y2)

\* ------------------------------------------------------------------ C40
\* The change listeners alone, from a registry without listeners.
InitListeners ==
    /\ now = 0 /\ ticks = 0 /\ ops = 0
    /\ settings = SyncAllSettings
    /\ failure_tracker = [s \in {} |-> NewCircuit(1)]
    /\ metrics = InitMetrics
    /\ connected = [s \in Servers |-> TRUE]
    /\ tools = SeededRegistry
    /\ calls = [c \in Calls |-> IdleCall]
    /\ streak = [s \in Servers |-> NoStreak]
    /\ tool_cache = [x \in {} |-> 0]
    /\ syncs = [y \in Syncs |-> IdleSync]
    /\ lastSync = [s \in Servers |-> NoSync]
    /\ task = "none" /\ health = InitHealth /\ sender = "none"
    /\ cmd_queue = <<>> /\ pending_requests = [x \in {} |-> 0]
    /\ reqs = [r \in Reqs |-> IdleReq] /\ wire = {}
    /\ answers = [r \in Reqs |-> 0] /\ frames = 0 /\ sweep_at = NoInstant
    /\ sync_all = IdleSyncAll
    /\ backoff = IdleBackoff(0)
    /\ regcall = IdleRegCall
    /\ conn = IdleConn
    /\ mgr = IdleMgr
    /\ locks = IdleLocks
    /\ validate = IdleValidate
    /\ heartbeat_at = NoInstant
    /\ listeners = IdleListeners

NextListeners ==
    \/ AddChangeListener
    \/ \E l \in 1..MaxListeners : ReceiverDropped(l)
    \/ \E n \in Notifiers : NotifyListeners(n)
    \/ \E n \in Notifiers : NotifySend(n)
    \/ \E n \in Notifiers : NotifyPrune(n)

SpecListeners == InitListeners /\ [][NextListeners]_vars

\* C40: a change listener whose channel is still open is never removed from
\* the registry's listener list: pruning removes only listeners whose send
\* failed, also when several notifications run concurrently and each prunes
\* dead listeners by index.
C40_OpenListenerKept ==
    [][\A i \in 1..Len(listeners.list) :
           listeners.list[i] \in listeners'.open
               => \E j \in 1..Len(listeners'.list) :
                      listeners'.list[j] = listeners.list[i]]_vars

====
